---------------------------- MODULE Spec2Model ----------------------------
(***************************************************************************)
(* A model of rust-mcp-filesystem: the MCP request handler (handler.rs),   *)
(* the allow-list sandbox of FileSystemService and its line reader         *)
(* (fs_service/io/read.rs).                                                *)
(*                                                                         *)
(* The module holds several specifications over one set of variables:      *)
(*   SpecLines   - read_file_lines applied to bounded byte sequences       *)
(*   SpecTools   - handle_call_tool_request / handle_list_tools_request    *)
(*   SpecRoots   - on_initialized / roots-list-changed notifications       *)
(*   SpecSandbox - the service operations and the allow-list snapshot      *)
(*   SpecEdit    - apply_file_edits on bounded texts and edit lists        *)
(*   SpecDedup   - find_duplicate_files on small trees of files            *)
(*   SpecEmpty   - find_empty_directories on small trees                   *)
(*   SpecContent - search_files_content on small trees of text files       *)
(*   SpecAst     - search_files_ast, its workers interleaved               *)
(*   SpecAstFair - SpecAst with its steps scheduled fairly                 *)
(*   SpecSnippet - extract_snippet on bounded lines of UTF-8 bytes         *)
(*   SpecTree    - directory_tree on small trees, with and without a depth *)
(*   SpecSymlink - contains_symlink on a file system with links            *)
(*   SpecParse   - parse_file_path on padded and prefixed texts            *)
(*   SpecExclude - the exclude patterns of the three search walkers        *)
(*   SpecRootsRace - roots-list-changed handlers running concurrently      *)
(* A specification leaves the variables of the others at their idle value. *)
(***************************************************************************)
EXTENDS Integers, Sequences, FiniteSets, TLC

VARIABLES
    \* read_file_lines: the file's bytes, the arguments, the returned string
    file, offset, limit, from_end, result, pc,
    \* FileSystemHandler: command line and the fields new() derives from it
    allow_write, tools, readonly, enabled_tools, lastCall, listed,
    \* roots handling
    enable_roots, mcp_roots_support, client_supports_roots, cli_dirs,
    exited, lastRoots,
    \* the client's current roots list and the roots-list-changed handlers
    \* in flight
    client_roots, handlers,
    \* FileSystemService: the allow-list, the file system and the operation
    \* in flight (or last completed)
    allowed_path, fs, flight,
    \* apply_file_edits: the edited file's text, the save_to target (None
    \* while it does not exist), the arguments of the calls, the last call
    content, saved, edits, save_to, last_edit,
    \* directory searches: the tree searched, the arguments of the call, its
    \* outcome, and the state of search_files_ast's parallel walk
    tree, request, reply, ast_walk

lineVars    == <<file, offset, limit, from_end, result, pc>>
toolVars    == <<allow_write, tools, readonly, enabled_tools, lastCall, listed>>
rootVars    == <<enable_roots, mcp_roots_support, client_supports_roots,
                 cli_dirs, exited, lastRoots, client_roots, handlers>>
serviceVars == <<allowed_path, fs, flight>>
editVars    == <<content, saved, edits, save_to, last_edit>>
searchVars  == <<tree, request, reply, ast_walk>>
vars        == <<lineVars, toolVars, rootVars, serviceVars, editVars,
                 searchVars>>

(***************************************************************************)
(* Option<T>: None is the empty sequence, Some(x) the one-element one.     *)
(***************************************************************************)
None == <<>>
Some(x) == <<x>>
IsSome(o) == o # <<>>
Unwrap(o) == o[1]

Min2(a, b) == IF a <= b THEN a ELSE b
SetMin(S) == CHOOSE x \in S : \A y \in S : x <= y
SetMax(S) == CHOOSE x \in S : \A y \in S : x >= y

\* All sequences over S of length 0..n
SeqsUpTo(S, n) == UNION {[1..k -> S] : k \in 0..n}

\* The elements of a finite set of integers as a descending sequence
RECURSIVE Descending(_)
Descending(S) ==
    IF S = {} THEN <<>>
    ELSE LET m == SetMax(S) IN <<m>> \o Descending(S \ {m})

(***************************************************************************)
(*                       LINE READER (io/read.rs)                          *)
(***************************************************************************)
LF == "LF"
CR == "CR"
Bytes == {"a", CR, LF}

MaxFileLen == 5
MaxOffset == 3
MaxLimit == 3
chunk_size == 8192

\* tokio's read_until(b'\n'): the end (exclusive, 0-based) of the chunk that
\* starts at byte pos: just past the next LF, or the end of the file.
read_until(f, pos) ==
    LET nl == {i \in pos..(Len(f) - 1) : f[i + 1] = LF}
    IN IF nl = {} THEN Len(f) ELSE SetMin(nl) + 1

\* bytes [from, to) of f, 0-based
Slice(f, from, to) == SubSeq(f, from + 1, to)

\* read.rs 134-139: skip `n` lines from byte pos; -1 when EOF comes first
RECURSIVE skip_lines(_, _, _)
skip_lines(f, pos, n) ==
    IF n = 0 THEN pos
    ELSE LET e == read_until(f, pos)
         IN IF e = pos THEN -1 ELSE skip_lines(f, e, n - 1)

\* read.rs 143-164 and 113-125: append up to `n` chunks (None: until EOF)
RECURSIVE read_chunks(_, _, _)
read_chunks(f, pos, n) ==
    IF IsSome(n) /\ Unwrap(n) = 0 THEN <<>>
    ELSE LET e == read_until(f, pos)
         IN IF e = pos THEN <<>>
            ELSE Slice(f, pos, e)
                 \o read_chunks(f, e, IF IsSome(n) THEN Some(Unwrap(n) - 1) ELSE None)

\* a from-start branch that forgets the limit
read_from_start_no_limit(f, off, lim) ==
    LET start == skip_lines(f, 0, off)
    IN IF start = -1 THEN <<>> ELSE read_chunks(f, start, None)

\* read.rs 128-167: the from-start branch
read_from_start(f, off, lim) ==
    LET start == skip_lines(f, 0, off)
    IN IF start = -1 THEN <<>> ELSE read_chunks(f, start, lim)

\* read.rs 66-80: newline positions collected chunk by chunk from the end of
\* the file, each chunk scanned in reverse: a descending sequence.
RECURSIVE scan_backwards(_, _, _)
scan_backwards(f, pos, acc) ==
    IF pos = 0 THEN acc
    ELSE LET read_size == Min2(chunk_size, pos)
             npos == pos - read_size
             found == {i \in npos..(pos - 1) : f[i + 1] = LF}
         IN scan_backwards(f, npos, acc \o Descending(found))

\* a line count that takes the last line for unterminated in every file
count_lines_always_partial(f, newline_positions) ==
    Len(newline_positions) + (IF Len(f) > 0 THEN 1 ELSE 0)

\* read.rs 82-91
count_lines(f, newline_positions) ==
    Len(newline_positions) + (IF Len(f) > 0 /\ f[Len(f)] # LF THEN 1 ELSE 0)

\* read.rs 100-105: newline_positions.get(i) is 0-based
start_position(newline_positions, line_count, off, lines_to_read) ==
    LET k == line_count - off - lines_to_read
    IN IF k = 0 THEN 0
       ELSE (IF k < Len(newline_positions) THEN newline_positions[k + 1] ELSE 0) + 1

\* read.rs 57-127: the from-end branch
read_from_end(f, off, lim) ==
    LET newline_positions == scan_backwards(f, Len(f), <<>>)
        line_count == count_lines(f, newline_positions)
    IN IF off >= line_count THEN <<>>
       ELSE LET lines_to_read ==
                    Min2(IF IsSome(lim) THEN Unwrap(lim) ELSE line_count - off,
                         line_count - off)
                start_pos == start_position(newline_positions, line_count, off,
                                            lines_to_read)
            IN read_chunks(f, start_pos, Some(lines_to_read))

\* read.rs 37-168 (on a validated, readable path)
read_file_lines(f, off, lim, fromEnd) ==
    IF Len(f) = 0 \/ lim = Some(0) THEN <<>>
    ELSE IF fromEnd THEN read_from_end(f, off, lim)
    ELSE read_from_start(f, off, lim)


(***************************************************************************)
(*              PATHS AND THE FILE SYSTEM (utils.rs, core)                 *)
(* A path is the sequence of its components. The file system maps each     *)
(* path of a small universe to what is there: "none", "dir", "link" (a     *)
(* symbolic link, its target given by LinkTarget) or a regular file with   *)
(* one of two contents, "file0" and "file1".                               *)
(***************************************************************************)
DirA == <<"a">>
DirB == <<"b">>
DirC == <<"c">>
Paths ==
    { DirA, <<"a", "f">>, <<"a", "sub">>, <<"a", "sub", "g">>, <<"a", "new">>,
      <<"a", "ln">>, <<"a", "dangling">>,
      DirB, <<"b", "h">>,
      DirC, <<"c", "x">> }

LinkTarget(p) ==
    IF p = <<"a", "ln">> THEN <<"c", "x">> ELSE <<"a", "gone">>

FsInit ==
    [p \in Paths |->
        CASE p \in {DirA, DirB, DirC, <<"a", "sub">>} -> "dir"
          [] p \in {<<"a", "f">>, <<"a", "sub", "g">>, <<"b", "h">>, <<"c", "x">>} -> "file0"
          [] p \in {<<"a", "ln">>, <<"a", "dangling">>} -> "link"
          [] OTHER -> "none"]

Kind(f, p) == IF p \in DOMAIN f THEN f[p] ELSE "none"
IsFile(f, p) == Kind(f, p) \in {"file0", "file1"}

\* Path::starts_with: component-wise prefix
starts_with(p, d) == Len(d) <= Len(p) /\ SubSeq(p, 1, Len(d)) = d

\* std::fs::canonicalize on a path whose links are final components:
\* Some(resolved) or None when nothing is there
canonicalize(f, p) ==
    CASE Kind(f, p) = "none" -> None
      [] Kind(f, p) = "link" ->
            IF Kind(f, LinkTarget(p)) \in {"none", "link"} THEN None
            ELSE Some(LinkTarget(p))
      [] OTHER -> Some(p)

\* Path::exists follows links: a dangling link does not exist
exists(f, p) == IsSome(canonicalize(f, p))

\* utils.rs 74-76
normalize_path(f, p) ==
    IF IsSome(canonicalize(f, p)) THEN Unwrap(canonicalize(f, p)) ELSE p

\* utils.rs 117-141: walk the prefixes of the path; stop at the first that
\* does not exist; true at the first that is itself a link
contains_symlink(f, p) ==
    \E n \in 1..Len(p) :
        /\ Kind(f, SubSeq(p, 1, n)) = "link"
        /\ \A m \in 1..n : exists(f, SubSeq(p, 1, m))

\* validate_path (spec 4.1): the path resolved (canonicalized when it exists,
\* else its nearest existing ancestor canonicalized and the tail re-joined),
\* then the containment check, then the symlink refusal.
RECURSIVE resolve(_, _)
resolve(f, p) ==
    IF p = <<>> THEN <<>>
    ELSE IF exists(f, p) THEN Unwrap(canonicalize(f, p))
    ELSE resolve(f, SubSeq(p, 1, Len(p) - 1)) \o <<p[Len(p)]>>

Contained(f, p, snapshot) ==
    \E i \in 1..Len(snapshot) :
        starts_with(resolve(f, p), normalize_path(f, snapshot[i]))

Ok(v) == [ok |-> TRUE, val |-> v]
Err(e) == [ok |-> FALSE, err |-> e]

validate_path(f, p, snapshot) ==
    IF ~Contained(f, p, snapshot) THEN Err("NotAllowed")
    ELSE IF exists(f, p) /\ contains_symlink(f, p) THEN Err("SymlinkInPath")
    ELSE Ok(resolve(f, p))

(***************************************************************************)
(* Idle values: what a specification assigns to the variables it does not  *)
(* use.                                                                    *)
(***************************************************************************)
IdleLines ==
    /\ file = <<>> /\ offset = 0 /\ limit = None /\ from_end = FALSE
    /\ result = <<>> /\ pc = "idle"

IdleTools ==
    /\ allow_write = FALSE /\ tools = None /\ readonly = TRUE
    /\ enabled_tools = None /\ lastCall = None /\ listed = None

IdleRoots ==
    /\ enable_roots = FALSE /\ mcp_roots_support = FALSE
    /\ client_supports_roots = FALSE /\ cli_dirs = <<>>
    /\ exited = FALSE /\ lastRoots = None
    /\ client_roots = None /\ handlers = <<>>

IdleService ==
    /\ allowed_path = <<>> /\ fs = <<>> /\ flight = None

IdleEdit ==
    /\ content = <<>> /\ saved = None /\ edits = <<>> /\ save_to = FALSE
    /\ last_edit = None

IdleSearch ==
    /\ tree = <<>> /\ request = None /\ reply = None /\ ast_walk = None

(***************************************************************************)
(* SpecLines: every file of at most MaxFileLen bytes, every offset and     *)
(* limit within the bounds, both directions; one call of read_file_lines.  *)
(***************************************************************************)
Files == SeqsUpTo(Bytes, MaxFileLen)
Limits == {None} \cup {Some(n) : n \in 0..MaxLimit}

InitLines ==
    /\ file \in Files
    /\ offset \in 0..MaxOffset
    /\ limit \in Limits
    /\ from_end \in BOOLEAN
    /\ result = <<>>
    /\ pc = "call"
    /\ IdleTools /\ IdleRoots /\ IdleService /\ IdleEdit /\ IdleSearch

ReadFileLines ==
    /\ pc = "call"
    /\ result' = read_file_lines(file, offset, limit, from_end)
    /\ pc' = "done"
    /\ UNCHANGED <<file, offset, limit, from_end>>
    /\ UNCHANGED <<toolVars, rootVars, serviceVars, editVars, searchVars>>

NextLines == ReadFileLines

SpecLines == InitLines /\ [][NextLines]_vars

(***************************************************************************)
(* What the claims about read_file_lines speak of: the lines of a byte     *)
(* sequence, found from the positions of its line feeds.                   *)
(***************************************************************************)
LFs(f) == {i \in 1..Len(f) : f[i] = LF}
EndsWithLF(f) == Len(f) > 0 /\ f[Len(f)] = LF
LineCount(f) == Cardinality(LFs(f)) + (IF Len(f) > 0 /\ ~EndsWithLF(f) THEN 1 ELSE 0)
NthLF(f, j) == CHOOSE i \in LFs(f) : Cardinality({x \in LFs(f) : x <= i}) = j
LineFirst(f, j) == IF j = 1 THEN 1 ELSE NthLF(f, j - 1) + 1
\* line j (1-based) without its line feed, and with it
LineText(f, j) ==
    SubSeq(f, LineFirst(f, j),
           IF j <= Cardinality(LFs(f)) THEN NthLF(f, j) - 1 ELSE Len(f))
LineWithTerminator(f, j) ==
    SubSeq(f, LineFirst(f, j),
           IF j <= Cardinality(LFs(f)) THEN NthLF(f, j) ELSE Len(f))
TextLines(f) == [j \in 1..LineCount(f) |-> LineText(f, j)]

RECURSIVE ConcatLines(_, _, _)
ConcatLines(f, from, to) ==
    IF from > to THEN <<>>
    ELSE LineWithTerminator(f, from) \o ConcatLines(f, from + 1, to)

IsSubstring(r, f) ==
    \E i \in 0..(Len(f) - Len(r)) : SubSeq(f, i + 1, i + Len(r)) = r

\* lines[N-offset-take .. N-offset], take = min(limit ?? N-offset, N-offset)
TailSelection(f, off, lim) ==
    LET N == LineCount(f)
        take == Min2(IF IsSome(lim) THEN Unwrap(lim) ELSE N - off, N - off)
    IN SubSeq(TextLines(f), N - off - take + 1, N - off)

\* C8: with from_end = true and offset < N, read_file_lines returns exactly
\* the lines lines[N-offset-take .. N-offset] of the file, in their order.
C8_FromEndSelectsTail ==
    (pc = "done" /\ from_end /\ offset < LineCount(file))
        => TextLines(result) = TailSelection(file, offset, limit)

\* C9: with from_end = true, the returned string ends with a line terminator
\* if and only if offset = 0 and the file itself ends with a line feed
\* (stated for calls that select at least one line).
C9_FromEndTrailingTerminator ==
    (pc = "done" /\ from_end /\ offset < LineCount(file) /\ limit # Some(0))
        => (EndsWithLF(result) <=> (offset = 0 /\ EndsWithLF(file)))

\* C10: with from_end = false, read_file_lines returns the concatenation of
\* the lines offset .. offset+limit-1 (to the end of the file when limit is
\* None), each with its own terminator, none added to a final line without
\* one; the result is a contiguous substring of the file.
C10_FromStartVerbatim ==
    (pc = "done" /\ ~from_end)
        => LET N == LineCount(file)
               last == IF IsSome(limit) THEN Min2(offset + Unwrap(limit), N) ELSE N
           IN /\ result = ConcatLines(file, offset + 1, last)
              /\ IsSubstring(result, file)

\* a window inside a CRLF file whose last line has no terminator
C10_Witness ==
    /\ pc = "done" /\ ~from_end /\ offset = 1 /\ limit = Some(2)
    /\ file = <<"a", CR, LF, "a", LF>>
    /\ result = <<"a", LF>>

\* C11: for every file, every limit and both directions, read_file_lines
\* with an offset at or beyond the file's number of lines returns the empty
\* string.
C11_OffsetBeyondFileIsEmpty ==
    (pc = "done" /\ offset >= LineCount(file)) => result = <<>>

\* from the end of a two-line file, with the offset equal to the line count
C11_Witness ==
    /\ pc = "done" /\ from_end /\ offset = 2 /\ limit = None
    /\ file = <<"a", LF, "a">>
    /\ result = <<>>

\* from the start of a terminated two-line file, offset equal to the count
C11_WitnessFromStart ==
    /\ pc = "done" /\ ~from_end /\ offset = 2 /\ limit = Some(1)
    /\ file = <<"a", LF, "a", LF>>
    /\ result = <<>>

(***************************************************************************)
(*                 TOOL DISPATCH (handler.rs, tools.rs)                    *)
(***************************************************************************)
\* tools.rs 44-68: the tool_box
AllTools ==
    { "read_text_file", "create_directory", "directory_tree", "edit_file",
      "get_file_info", "list_allowed_directories", "list_directory",
      "move_file", "read_multiple_text_files", "search_files",
      "search_code_ast", "write_file", "search_files_content",
      "list_directory_with_sizes", "read_media_file",
      "read_multiple_media_files", "read_file_lines",
      "find_empty_directories", "calculate_directory_size",
      "find_duplicate_files" }

\* a tool table that forgets that edit_file writes
require_write_access_without_edit(tool) ==
    tool \in {"create_directory", "move_file", "write_file"}

\* tools.rs 73-96
require_write_access(tool) ==
    tool \in {"create_directory", "move_file", "write_file", "edit_file"}

(***************************************************************************)
(* The --tools value is a string; the model keeps it as the sequence of    *)
(* its comma-separated pieces. A piece is a word as written: possibly in   *)
(* upper case, possibly padded with blanks. Two pieces are the same string *)
(* iff they are the same record; a tool's name is the plain piece.         *)
(***************************************************************************)
Piece(w, u, b) == [word |-> w, upper |-> u, padded |-> b]
Plain(w) == Piece(w, FALSE, FALSE)
\* upper case and padding of the empty word: "" has no letters, and a padded
\* empty word is a run of blanks
Pieces ==
    { Plain(""), Piece("", FALSE, TRUE),
      Plain("all"), Piece("all", TRUE, TRUE),
      Plain("read_text_file"), Piece("write_file", TRUE, TRUE),
      Plain("no_such_tool") }

MaxPieces == 2
ToolsValues == {None} \cup {Some(v) : v \in SeqsUpTo(Pieces, MaxPieces) \ {<<>>}}

trim(piece) == [piece EXCEPT !.padded = FALSE]
to_lowercase(piece) == [piece EXCEPT !.upper = FALSE]
\* str::trim of the whole value: the blanks before the first and after the
\* last piece go; a value is empty after trimming iff it is one blank piece
trimmed_is_empty(v) == Len(v) = 1 /\ v[1].word = ""
eq_ignore_ascii_case(v, w) == Len(v) = 1 /\ to_lowercase(trim(v[1])) = Plain(w)

\* the pieces collected as written: neither trimmed nor lower-cased
enabled_tools_as_written(toolsArg) ==
    IF toolsArg = None THEN None
    ELSE LET v == Unwrap(toolsArg)
         IN IF trimmed_is_empty(v) \/ eq_ignore_ascii_case(v, "all") THEN None
            ELSE Some({v[i] : i \in {j \in 1..Len(v) : v[j].word # ""}}
                      \cup {Plain("list_allowed_directories")})

\* handler.rs 29-45: None means every tool is enabled
parse_enabled_tools(toolsArg) ==
    IF toolsArg = None THEN None
    ELSE LET v == Unwrap(toolsArg)
         IN IF trimmed_is_empty(v) \/ eq_ignore_ascii_case(v, "all") THEN None
            ELSE Some({to_lowercase(trim(v[i])) :
                          i \in {j \in 1..Len(v) : to_lowercase(trim(v[j])) # Plain("")}}
                      \cup {Plain("list_allowed_directories")})

\* handler.rs 239-244
tool_enabled(enabled, tool) ==
    enabled = None \/ to_lowercase(Plain(tool)) \in Unwrap(enabled)

\* handler.rs 189-199
list_tools(enabled) ==
    IF IsSome(enabled)
    THEN {t \in AllTools : to_lowercase(Plain(t)) \in Unwrap(enabled)}
    ELSE AllTools

\* handler.rs 55-61
assert_write_access(ro) == IF ro THEN Err("NoWriteAccess") ELSE Ok(TRUE)

(***************************************************************************)
(* What the four modifying tools do to the file system once run (spec 6:   *)
(* write_file replaces the contents, create_directory creates, move_file   *)
(* renames, apply_file_edits rewrites), each on validated paths only.      *)
(***************************************************************************)
ToolPaths == {<<"a", "f">>, <<"a", "new">>, <<"c", "x">>}

run_write_tool(tool, p, q, f, allowed) ==
    LET okp == validate_path(f, p, allowed).ok
        okq == validate_path(f, q, allowed).ok
    IN CASE tool = "write_file" /\ okp /\ Kind(f, p) # "dir" ->
                [f EXCEPT ![p] = "file1"]
         [] tool = "create_directory" /\ okp /\ Kind(f, p) = "none" ->
                [f EXCEPT ![p] = "dir"]
         [] tool = "move_file" /\ okp /\ okq /\ p # q
                /\ Kind(f, p) # "none" /\ Kind(f, q) = "none" ->
                [f EXCEPT ![q] = f[p], ![p] = "none"]
         [] tool = "edit_file" /\ okp /\ IsFile(f, p) ->
                [f EXCEPT ![p] = IF f[p] = "file0" THEN "file1" ELSE "file0"]
         [] OTHER -> f

\* handler.rs 230-275: Ok(what the request ends as)
call_tool_outcome(tool, enabled, ro) ==
    IF tool \notin AllTools THEN "UnknownTool"
    ELSE IF ~tool_enabled(enabled, tool) THEN "ToolNotEnabled"
    ELSE IF require_write_access(tool) /\ ~assert_write_access(ro).ok
         THEN "NoWriteAccess"
    ELSE "invoked"

InitTools ==
    /\ allow_write \in BOOLEAN
    /\ tools \in ToolsValues
    /\ readonly = ~allow_write
    /\ enabled_tools = parse_enabled_tools(tools)
    /\ lastCall = None
    /\ listed = None
    /\ allowed_path = <<DirA>>
    /\ fs = FsInit
    /\ flight = None
    /\ IdleLines /\ IdleRoots /\ IdleEdit /\ IdleSearch

\* handle_call_tool_request
CallTool(tool, p, q) ==
    LET outcome == call_tool_outcome(tool, enabled_tools, readonly)
    IN /\ lastCall' = Some([tool |-> tool, outcome |-> outcome])
       /\ fs' = IF outcome = "invoked"
                THEN run_write_tool(tool, p, q, fs, allowed_path)
                ELSE fs
       /\ UNCHANGED <<allow_write, tools, readonly, enabled_tools, listed>>
       /\ UNCHANGED <<allowed_path, flight>>
       /\ UNCHANGED <<lineVars, rootVars, editVars, searchVars>>

\* handle_list_tools_request
ListTools ==
    /\ listed' = Some(list_tools(enabled_tools))
    /\ UNCHANGED <<allow_write, tools, readonly, enabled_tools, lastCall>>
    /\ UNCHANGED <<lineVars, rootVars, serviceVars, editVars, searchVars>>

NextTools ==
    \/ \E tool \in AllTools \cup {"no_such_tool"}, p \in ToolPaths :
          \E q \in (IF tool = "move_file" THEN ToolPaths ELSE {p}) :
              CallTool(tool, p, q)
    \/ ListTools

SpecTools == InitTools /\ [][NextTools]_vars


(***************************************************************************)
(* What the claims about the tool gate speak of, read off the command      *)
(* line: the modifying tools, and the tools a --tools value enables.       *)
(***************************************************************************)
ModifyingTools == {"create_directory", "move_file", "write_file", "edit_file"}

ValueMeansAll ==
    \/ tools = None
    \/ Len(Unwrap(tools)) = 1 /\ Unwrap(tools)[1].word \in {"", "all"}

EnabledByValue(t) ==
    \/ ValueMeansAll
    \/ t = "list_allowed_directories"
    \/ \E i \in 1..Len(Unwrap(tools)) : Unwrap(tools)[i].word = t

\* C4 as stated: in read-only mode every call of a modifying tool is
\* rejected with NoWriteAccess, no call changes the file system, and no
\* read-only tool is rejected with NoWriteAccess.
C4_ReadOnlyAlwaysNoWriteAccess ==
    readonly =>
        /\ fs = FsInit
        /\ IsSome(lastCall) =>
              LET c == Unwrap(lastCall)
              IN /\ c.tool \in ModifyingTools => c.outcome = "NoWriteAccess"
                 /\ c.tool \notin ModifyingTools => c.outcome # "NoWriteAccess"

\* C4 as amended: in read-only mode every call of a modifying tool is
\* rejected before the tool is invoked, with NoWriteAccess when --tools
\* enables the tool and with ToolNotEnabled when it does not; no call changes
\* the file system, and no read-only tool is rejected with NoWriteAccess.
C4_ReadOnlyRejectsWrites ==
    readonly =>
        /\ fs = FsInit
        /\ IsSome(lastCall) =>
              LET c == Unwrap(lastCall)
              IN /\ c.tool \in ModifyingTools =>
                        c.outcome = IF EnabledByValue(c.tool) THEN "NoWriteAccess"
                                    ELSE "ToolNotEnabled"
                 /\ c.tool \notin ModifyingTools => c.outcome # "NoWriteAccess"

\* an enabled modifying tool called in read-only mode
C4_Witness ==
    /\ readonly
    /\ tools = Some(<<Piece("write_file", TRUE, TRUE)>>)
    /\ lastCall = Some([tool |-> "write_file", outcome |-> "NoWriteAccess"])

\* C7: a call is dispatched only if its tool is enabled, and is otherwise
\* rejected with ToolNotEnabled (also for a modifying tool in read-only mode:
\* the rejection precedes the write-access check); list_allowed_directories
\* is always enabled; a missing, empty or 'all' value enables every tool; the
\* tools listed are exactly those a call would not reject as not enabled.
C7_EnabledToolsGate ==
    /\ IsSome(lastCall) /\ Unwrap(lastCall).tool \in AllTools =>
          LET c == Unwrap(lastCall)
          IN /\ c.outcome = "ToolNotEnabled" <=> ~EnabledByValue(c.tool)
             /\ c.outcome = "invoked" => EnabledByValue(c.tool)
    /\ IsSome(enabled_tools) =>
          Plain("list_allowed_directories") \in Unwrap(enabled_tools)
    /\ ValueMeansAll => enabled_tools = None
    /\ IsSome(listed) => Unwrap(listed) = {t \in AllTools : EnabledByValue(t)}

\* a disabled modifying tool called in read-only mode, after a listing
C7_Witness ==
    /\ readonly
    /\ tools = Some(<<Piece("write_file", TRUE, TRUE), Plain("")>>)
    /\ lastCall = Some([tool |-> "edit_file", outcome |-> "ToolNotEnabled"])
    /\ listed = Some({"write_file", "list_allowed_directories"})


(***************************************************************************)
(*                    MCP ROOTS (handler.rs 95-182)                        *)
(***************************************************************************)
\* A root as the client sends it: a path, written raw or as a file:// URI
Root(prefixed, p) == [file_uri |-> prefixed, path |-> p]
RootUris ==
    { Root(TRUE, DirA), Root(FALSE, DirB),
      Root(TRUE, <<"a", "f">>), Root(TRUE, <<"a", "new">>) }

MaxRoots == 2
\* what list_roots answers: an error, or a list of roots
RootsResponses == {Err("list_roots")} \cup {Ok(r) : r \in SeqsUpTo(RootUris, MaxRoots)}

\* utils.rs 261-266: the file:// prefix stripped
parse_file_path(uri) == uri.path

RECURSIVE SelectDirs(_, _)
SelectDirs(f, paths) ==
    IF paths = <<>> THEN <<>>
    ELSE (IF Kind(f, normalize_path(f, paths[1])) = "dir"
          THEN <<normalize_path(f, paths[1])>> ELSE <<>>)
         \o SelectDirs(f, SubSeq(paths, 2, Len(paths)))

\* valid_roots (spec 4.1): the roots that are directories, in their order
valid_roots(f, roots) ==
    SelectDirs(f, [i \in 1..Len(roots) |-> parse_file_path(roots[i])])

\* an update that runs whether or not --enable-roots was given
update_allowed_directories_unguarded(support, clientSupports, allowed, response, f) ==
    LET roots == IF response.ok THEN response.val ELSE <<>>
        valid == IF roots = <<>> THEN <<>> ELSE valid_roots(f, roots)
    IN IF ~clientSupports \/ valid = <<>>
       THEN [allowed |-> allowed, exit |-> FALSE]
       ELSE [allowed |-> valid, exit |-> FALSE]

\* an update that adds the client's roots to the configured directories
update_allowed_directories_appending(support, clientSupports, allowed, response, f) ==
    LET roots == IF response.ok THEN response.val ELSE <<>>
        valid == IF roots = <<>> THEN <<>> ELSE valid_roots(f, roots)
    IN IF ~support \/ ~clientSupports \/ valid = <<>>
       THEN [allowed |-> allowed, exit |-> FALSE]
       ELSE [allowed |-> allowed \o valid, exit |-> FALSE]

\* handler.rs 95-159: the allow-list after the update, and whether the
\* server exits (handler.rs 114)
update_allowed_directories(support, clientSupports, allowed, response, f) ==
    IF ~support THEN [allowed |-> allowed, exit |-> FALSE]
    ELSE IF ~clientSupports
         THEN [allowed |-> allowed, exit |-> (allowed = <<>>)]
    ELSE LET roots == IF response.ok THEN response.val ELSE <<>>
             valid == IF roots = <<>> THEN <<>> ELSE valid_roots(f, roots)
         IN IF valid = <<>> THEN [allowed |-> allowed, exit |-> FALSE]
            ELSE [allowed |-> valid, exit |-> FALSE]

\* cli.rs 55-62: validate()
CommandLineValid(roots, dirs) == roots \/ dirs # <<>>

CliDirs == {<<>>, <<DirA>>, <<DirA, DirB>>}

InitRoots ==
    /\ enable_roots \in BOOLEAN
    /\ cli_dirs \in CliDirs
    /\ CommandLineValid(enable_roots, cli_dirs)
    /\ mcp_roots_support = enable_roots
    /\ client_supports_roots \in BOOLEAN
    /\ exited = FALSE
    /\ lastRoots = None
    /\ client_roots = None /\ handlers = <<>>
    /\ fs = FsInit
    /\ allowed_path = cli_dirs
    /\ flight = None
    /\ IdleLines /\ IdleTools /\ IdleEdit /\ IdleSearch

RootsEvent(event, updates, response) ==
    LET after == IF updates
                 THEN update_allowed_directories(mcp_roots_support,
                          client_supports_roots, allowed_path, response, fs)
                 ELSE [allowed |-> allowed_path, exit |-> FALSE]
    IN /\ ~exited
       /\ allowed_path' = after.allowed
       /\ exited' = after.exit
       /\ lastRoots' = Some([event |-> event, before |-> allowed_path,
                             response |-> response])
       /\ UNCHANGED <<enable_roots, mcp_roots_support, client_supports_roots, cli_dirs>>
       /\ UNCHANGED <<client_roots, handlers>>
       /\ UNCHANGED <<fs, flight>>
       /\ UNCHANGED <<lineVars, toolVars, editVars, searchVars>>

\* handler.rs 163-166
OnInitialized(response) == RootsEvent("on_initialized", TRUE, response)

\* handler.rs 168-182
RootsListChanged(response) ==
    RootsEvent("roots_list_changed", mcp_roots_support, response)

NextRoots ==
    \/ \E response \in RootsResponses : OnInitialized(response)
    \/ \E response \in RootsResponses : RootsListChanged(response)

SpecRoots == InitRoots /\ [][NextRoots]_vars

\* the client's roots that are directories, in the order sent
RECURSIVE DirectoryRoots(_)
DirectoryRoots(roots) ==
    IF roots = <<>> THEN <<>>
    ELSE (IF FsInit[roots[1].path] = "dir" THEN <<roots[1].path>> ELSE <<>>)
         \o DirectoryRoots(Tail(roots))

\* C5: without --enable-roots the allow-list stays the list given on the
\* command line, whatever on_initialized and roots-list-changed events came.
C5_RootsDisabledKeepsAllowList ==
    ~enable_roots => allowed_path = cli_dirs

\* roots are disabled; a client that supports roots was notified of the
\* initialization and offers a directory that is not on the command line
C5_Witness ==
    /\ ~enable_roots /\ client_supports_roots /\ cli_dirs = <<DirA>>
    /\ IsSome(lastRoots)
    /\ Unwrap(lastRoots).event = "on_initialized"
    /\ Unwrap(lastRoots).response = Ok(<<Root(FALSE, DirB)>>)

\* C6: with roots enabled and a client that supports them, a roots update
\* leaves the allow-list equal to exactly the valid client roots when there
\* is one, and leaves it as it was when the client returned no roots, only
\* invalid roots, or an error.
C6_RootsReplaceAllowList ==
    (enable_roots /\ client_supports_roots /\ IsSome(lastRoots)) =>
        LET r == Unwrap(lastRoots)
            valid == IF r.response.ok THEN DirectoryRoots(r.response.val) ELSE <<>>
        IN allowed_path = IF valid # <<>> THEN valid ELSE r.before

\* one valid and one invalid root replace two configured directories
C6_Witness ==
    /\ enable_roots /\ client_supports_roots /\ IsSome(lastRoots)
    /\ Unwrap(lastRoots).before = <<DirA, DirB>>
    /\ Unwrap(lastRoots).response = Ok(<<Root(FALSE, DirB), Root(TRUE, <<"a", "f">>)>>)
    /\ allowed_path = <<DirB>>

\* an update that found no valid root after the allow-list had been replaced
C6_WitnessUnchanged ==
    /\ enable_roots /\ client_supports_roots /\ IsSome(lastRoots)
    /\ Unwrap(lastRoots).before = <<DirB>> /\ cli_dirs = <<DirA>>
    /\ ~Unwrap(lastRoots).response.ok
    /\ allowed_path = <<DirB>>


(***************************************************************************)
(* FILESYSTEM SERVICE OPERATIONS                                           *)
(* An operation is recorded by the allow-list snapshot it took on entry,   *)
(* the validations it made (path and result), the paths of the file system *)
(* it accessed, and its result.                                            *)
(***************************************************************************)
MaxAllowed == 2
AllowDirs == {DirA, DirC}
AllowLists == SeqsUpTo(AllowDirs, MaxAllowed)
OpPaths == {DirA, DirC, <<"a", "f">>, <<"a", "ln">>, <<"a", "new">>, <<"c", "x">>}

Check(p, v) == [path |-> p, res |-> v]

\* the operation returned: its validations, what it accessed, Ok or Err
Returned(checks, touched, ok) ==
    [stage |-> "done", checks |-> checks, touched |-> touched,
     result |-> IF ok THEN "ok" ELSE "error", pending |-> {}]

\* the operation is suspended at an await with more work to do
Suspended(stage, checks, touched, pending) ==
    [stage |-> stage, checks |-> checks, touched |-> touched,
     result |-> "pending", pending |-> pending]

\* what opening, reading or stat-ing a validated path accesses
Accessed(f, p) == IF exists(f, p) THEN {p} ELSE {}

\* the entries a directory walk visits from a root, links not followed
Walk(f, root) == {q \in Paths : starts_with(q, root) /\ Kind(f, q) # "none"}

\* the entries of one directory
Entries(f, d) == {q \in Walk(f, d) : Len(q) = Len(d) + 1}

\* io/read.rs 23-28
read_text_file(f, p, snapshot) ==
    LET v == validate_path(f, p, snapshot)
    IN IF ~v.ok THEN Returned(<<Check(p, v)>>, {}, FALSE)
       ELSE Returned(<<Check(p, v)>>, Accessed(f, v.val), IsFile(f, v.val))

\* io/read.rs 37-50: validation and File::open of read_file_lines
read_file_lines_open(f, p, snapshot) ==
    LET v == validate_path(f, p, snapshot)
    IN IF ~v.ok THEN Returned(<<Check(p, v)>>, {}, FALSE)
       ELSE Returned(<<Check(p, v)>>, Accessed(f, v.val), IsFile(f, v.val))

\* io/read.rs 188-199
read_media_file(f, p, snapshot) ==
    LET v == validate_path(f, p, snapshot)
    IN IF ~v.ok THEN Returned(<<Check(p, v)>>, {}, FALSE)
       ELSE Returned(<<Check(p, v)>>, Accessed(f, v.val), IsFile(f, v.val))

\* io/read.rs 202-224
get_file_stats(f, p, snapshot) ==
    LET v == validate_path(f, p, snapshot)
    IN IF ~v.ok THEN Returned(<<Check(p, v)>>, {}, FALSE)
       ELSE Returned(<<Check(p, v)>>, Accessed(f, v.val), exists(f, v.val))

\* search/tree.rs 232-247
list_directory(f, p, snapshot) ==
    LET v == validate_path(f, p, snapshot)
    IN IF ~v.ok THEN Returned(<<Check(p, v)>>, {}, FALSE)
       ELSE Returned(<<Check(p, v)>>,
                     Accessed(f, v.val) \cup Entries(f, v.val),
                     Kind(f, v.val) = "dir")

\* search/files.rs 51-141: snapshot, validation, then the walk
search_files_iter(f, p, snapshot) ==
    LET v == validate_path(f, p, snapshot)
    IN IF ~v.ok THEN Returned(<<Check(p, v)>>, {}, FALSE)
       ELSE Returned(<<Check(p, v)>>, Walk(f, v.val), TRUE)

\* search/files.rs 25-43
search_files(f, p, snapshot) == search_files_iter(f, p, snapshot)

\* search/tree.rs 144-157
calculate_directory_size(f, p, snapshot) == search_files_iter(f, p, snapshot)

\* search/tree.rs 192-230
find_empty_directories(f, p, snapshot) == search_files_iter(f, p, snapshot)

\* search/content.rs 177-294: validates root_path, then walks root_path
search_files_content(f, p, snapshot) ==
    LET v == validate_path(f, p, snapshot)
    IN IF ~v.ok THEN Returned(<<Check(p, v)>>, {}, FALSE)
       ELSE Returned(<<Check(p, v)>>, Walk(f, p), TRUE)

\* search/ast.rs 190-374: language and pattern are checked first
search_files_ast(f, p, snapshot, patternValid) ==
    IF ~patternValid THEN Returned(<<>>, {}, FALSE)
    ELSE LET v == validate_path(f, p, snapshot)
         IN IF ~v.ok THEN Returned(<<Check(p, v)>>, {}, FALSE)
            ELSE Returned(<<Check(p, v)>>, Walk(f, p), TRUE)

\* search/content.rs 49-93: the searcher opens file_path as given
content_search(f, p, snapshot) ==
    Returned(<<>>, Accessed(f, p), IsFile(f, normalize_path(f, p)))

\* search/ast.rs 56-104: read_to_string on file_path as given
ast_search(f, p, snapshot, patternValid) ==
    IF ~patternValid THEN Returned(<<>>, {}, FALSE)
    ELSE Returned(<<>>, Accessed(f, p), IsFile(f, normalize_path(f, p)))


\* search/files.rs 146-156: entry of find_duplicate_files, up to the await
\* on search_files_iter
find_duplicate_files_entry(f, p, snapshot) ==
    LET v == validate_path(f, p, snapshot)
    IN IF ~v.ok THEN Returned(<<Check(p, v)>>, {}, FALSE)
       ELSE Suspended("iter", <<Check(p, v)>>, {}, {v.val})

\* search/files.rs 162-172 with 51-62: search_files_iter on the validated
\* root takes the allow-list again; then the files are walked and hashed
find_duplicate_files_iter(f, op, current) ==
    LET root == CHOOSE d \in op.pending : TRUE
        inner == search_files_iter(f, root, current)
    IN Returned(op.checks \o inner.checks, inner.touched, inner.result = "ok")

\* tools/directory_tree.rs 35-44 and search/tree.rs 29-47: the tool takes the
\* snapshot, directory_tree validates the root and requires a directory
directory_tree_entry(f, p, snapshot) ==
    LET v == validate_path(f, p, snapshot)
        subdirs == IF v.ok THEN {q \in Entries(f, v.val) : Kind(f, q) = "dir"} ELSE {}
    IN IF ~v.ok THEN Returned(<<Check(p, v)>>, {}, FALSE)
       ELSE IF Kind(f, v.val) # "dir"
            THEN Returned(<<Check(p, v)>>, Accessed(f, v.val), FALSE)
       ELSE IF subdirs = {}
            THEN Returned(<<Check(p, v)>>, {v.val} \cup Entries(f, v.val), TRUE)
       ELSE Suspended("walk", <<Check(p, v)>>,
                      {v.val} \cup Entries(f, v.val), subdirs)

\* search/tree.rs 105-119 with 29-47: the recursive call on a real
\* subdirectory, with the allow-list the caller passed down
directory_tree_recurse(f, op, d, snapshot) ==
    LET v == validate_path(f, d, snapshot)
        checks == op.checks \o <<Check(d, v)>>
        subdirs == IF v.ok THEN {q \in Entries(f, v.val) : Kind(f, q) = "dir"} ELSE {}
        rest == (op.pending \ {d}) \cup subdirs
    IN IF ~v.ok THEN Returned(checks, op.touched, FALSE)
       ELSE IF rest = {}
            THEN Returned(checks, op.touched \cup Entries(f, v.val), TRUE)
       ELSE Suspended("walk", checks, op.touched \cup Entries(f, v.val), rest)

(***************************************************************************)
(* SpecSandbox: one service operation at a time runs against a fixed file  *)
(* system while update_allowed_paths replaces the allow-list at any moment.*)
(***************************************************************************)
InitSandbox ==
    /\ allowed_path \in AllowLists
    /\ fs = FsInit
    /\ flight = None
    /\ IdleLines /\ IdleTools /\ IdleRoots /\ IdleEdit /\ IdleSearch

NoneInFlight == IF IsSome(flight) THEN Unwrap(flight).stage = "done" ELSE TRUE

\* an operation is entered: allowed_directories() hands it the current list
Enter(op, p, outcome) ==
    /\ NoneInFlight
    /\ flight' = Some([op |-> op, path |-> p, snap |-> allowed_path] @@ outcome)
    /\ UNCHANGED <<allowed_path, fs>>
    /\ UNCHANGED <<lineVars, toolVars, rootVars, editVars, searchVars>>

ReadTextFile(p) == Enter("read_text_file", p, read_text_file(fs, p, allowed_path))
ReadFileLinesOpen(p) == Enter("read_file_lines", p, read_file_lines_open(fs, p, allowed_path))
ReadMediaFile(p) == Enter("read_media_file", p, read_media_file(fs, p, allowed_path))
GetFileStats(p) == Enter("get_file_stats", p, get_file_stats(fs, p, allowed_path))
ListDirectory(p) == Enter("list_directory", p, list_directory(fs, p, allowed_path))
SearchFiles(p) == Enter("search_files", p, search_files(fs, p, allowed_path))
CalculateDirectorySize(p) ==
    Enter("calculate_directory_size", p, calculate_directory_size(fs, p, allowed_path))
FindEmptyDirectories(p) ==
    Enter("find_empty_directories", p, find_empty_directories(fs, p, allowed_path))
SearchFilesContent(p) ==
    Enter("search_files_content", p, search_files_content(fs, p, allowed_path))
SearchFilesAst(p, patternValid) ==
    Enter("search_files_ast", p, search_files_ast(fs, p, allowed_path, patternValid))
ContentSearch(p) == Enter("content_search", p, content_search(fs, p, allowed_path))
AstSearch(p, patternValid) ==
    Enter("ast_search", p, ast_search(fs, p, allowed_path, patternValid))
FindDuplicateFiles(p) ==
    Enter("find_duplicate_files", p, find_duplicate_files_entry(fs, p, allowed_path))
DirectoryTree(p) == Enter("directory_tree", p, directory_tree_entry(fs, p, allowed_path))

\* the operation in flight takes its next step
Resume(op, stage, outcome) ==
    /\ IsSome(flight)
    /\ Unwrap(flight).op = op
    /\ Unwrap(flight).stage = stage
    /\ flight' = Some(outcome @@ Unwrap(flight))
    /\ UNCHANGED <<allowed_path, fs>>
    /\ UNCHANGED <<lineVars, toolVars, rootVars, editVars, searchVars>>

FindDuplicateFilesIter ==
    /\ IsSome(flight) /\ Unwrap(flight).stage = "iter"
    /\ Resume("find_duplicate_files", "iter",
              find_duplicate_files_iter(fs, Unwrap(flight), allowed_path))

DirectoryTreeRecurse ==
    /\ IsSome(flight) /\ Unwrap(flight).stage = "walk"
    /\ \E d \in Unwrap(flight).pending :
          Resume("directory_tree", "walk",
                 directory_tree_recurse(fs, Unwrap(flight), d, Unwrap(flight).snap))

\* update_allowed_paths (spec 4.1): the list is replaced as a whole
UpdateAllowedPaths(new) ==
    /\ allowed_path' = new
    /\ UNCHANGED <<fs, flight>>
    /\ UNCHANGED <<lineVars, toolVars, rootVars, editVars, searchVars>>

NextSandbox ==
    \/ \E p \in OpPaths : ReadTextFile(p)
    \/ \E p \in OpPaths : ReadFileLinesOpen(p)
    \/ \E p \in OpPaths : ReadMediaFile(p)
    \/ \E p \in OpPaths : GetFileStats(p)
    \/ \E p \in OpPaths : ListDirectory(p)
    \/ \E p \in OpPaths : SearchFiles(p)
    \/ \E p \in OpPaths : CalculateDirectorySize(p)
    \/ \E p \in OpPaths : FindEmptyDirectories(p)
    \/ \E p \in OpPaths : SearchFilesContent(p)
    \/ \E p \in OpPaths, patternValid \in BOOLEAN : SearchFilesAst(p, patternValid)
    \/ \E p \in OpPaths : ContentSearch(p)
    \/ \E p \in OpPaths, patternValid \in BOOLEAN : AstSearch(p, patternValid)
    \/ \E p \in OpPaths : FindDuplicateFiles(p)
    \/ FindDuplicateFilesIter
    \/ \E p \in OpPaths : DirectoryTree(p)
    \/ DirectoryTreeRecurse
    \/ \E new \in AllowLists : UpdateAllowedPaths(new)

SpecSandbox == InitSandbox /\ [][NextSandbox]_vars


\* the operation has returned
Done == IsSome(flight) /\ Unwrap(flight).stage = "done"

\* C1: a path contained in no entry of the allow-list snapshot is refused by
\* validate_path with the not-allowed error, and every service operation
\* called on it returns an error instead of a result.
C1_OutsidePathRejected ==
    Done =>
        LET op == Unwrap(flight)
        IN ~Contained(fs, op.path, op.snap) =>
              /\ validate_path(fs, op.path, op.snap) = Err("NotAllowed")
              /\ op.result = "error"

\* C2: every operation that takes a path holds a successfully validated path
\* before it opens, reads or walks anything, and for a path outside every
\* allowed directory it returns an error and has accessed nothing.
C2_ValidatedBeforeAccess ==
    IsSome(flight) =>
        LET op == Unwrap(flight)
        IN /\ op.touched # {} => (op.checks # <<>> /\ op.checks[1].res.ok)
           /\ (op.stage = "done" /\ ~Contained(fs, op.path, op.snap)) =>
                 (op.result = "error" /\ op.touched = {})

\* C3: every validation an operation makes gives the result that the
\* snapshot taken at its entry gives, whatever update_allowed_paths did while
\* the operation was in flight.
C3_SnapshotIsolation ==
    IsSome(flight) =>
        LET op == Unwrap(flight)
        IN \A i \in DOMAIN op.checks :
              op.checks[i].res = validate_path(fs, op.checks[i].path, op.snap)


(***************************************************************************)
(*                EDIT ENGINE (apply_file_edits, utils.rs)                 *)
(* A text is a sequence of characters: letters, the blank, CR and LF.      *)
(***************************************************************************)
MaxContent == 3
TextChars == {"a", " ", CR, LF}
Texts == SeqsUpTo(TextChars, MaxContent)

\* text.contains("\r\n")
contains_crlf(t) == \E i \in 1..(Len(t) - 1) : t[i] = CR /\ t[i + 1] = LF

\* a detection that knows only CRLF and LF
detect_line_ending_without_cr(t) ==
    IF contains_crlf(t) THEN <<CR, LF>> ELSE <<LF>>

\* utils.rs 183-191
detect_line_ending(t) ==
    IF contains_crlf(t) THEN <<CR, LF>>
    ELSE IF \E i \in 1..Len(t) : t[i] = CR THEN <<CR>>
    ELSE <<LF>>

\* str::replace("\r\n", "\n")
RECURSIVE replace_crlf(_)
replace_crlf(t) ==
    IF t = <<>> THEN <<>>
    ELSE IF Len(t) >= 2 /\ t[1] = CR /\ t[2] = LF
         THEN <<LF>> \o replace_crlf(SubSeq(t, 3, Len(t)))
    ELSE <<t[1]>> \o replace_crlf(Tail(t))

\* str::replace('\r', "\n")
replace_cr(t) == [i \in 1..Len(t) |-> IF t[i] = CR THEN LF ELSE t[i]]

\* utils.rs 104-106
normalize_line_endings(t) == replace_cr(replace_crlf(t))

\* spec 4.6 step 5: every "\n" replaced by the detected terminator
RECURSIVE reapply_line_ending(_, _)
reapply_line_ending(t, ending) ==
    IF t = <<>> THEN <<>>
    ELSE (IF t[1] = LF THEN ending ELSE <<t[1]>>)
         \o reapply_line_ending(Tail(t), ending)

\* the first position (1-based) where old occurs verbatim in t, 0 if none
find(t, old) ==
    LET hits == {i \in 1..(Len(t) - Len(old) + 1) :
                    SubSeq(t, i, i + Len(old) - 1) = old}
    IN IF hits = {} THEN 0 ELSE SetMin(hits)

\* str::split('\n') and join("\n")
RECURSIVE split_lines(_)
split_lines(t) ==
    LET nl == {i \in 1..Len(t) : t[i] = LF}
    IN IF nl = {} THEN <<t>>
       ELSE <<SubSeq(t, 1, SetMin(nl) - 1)>>
            \o split_lines(SubSeq(t, SetMin(nl) + 1, Len(t)))

RECURSIVE join_lines(_)
join_lines(ls) ==
    IF ls = <<>> THEN <<>>
    ELSE IF Len(ls) = 1 THEN ls[1]
    ELSE ls[1] \o <<LF>> \o join_lines(Tail(ls))

\* the number of leading blanks of a line; the line without them; trimmed
indent(l) ==
    LET solid == {i \in 1..Len(l) : l[i] # " "}
    IN IF solid = {} THEN Len(l) ELSE SetMin(solid) - 1
trim_start(l) == SubSeq(l, indent(l) + 1, Len(l))
trim_line(l) ==
    LET solid == {i \in 1..Len(l) : l[i] # " "}
    IN IF solid = {} THEN <<>> ELSE SubSeq(l, SetMin(solid), SetMax(solid))
blanks(n) == [i \in 1..n |-> " "]


\* spec 4.6 step 4c: the first line index (0-based) at which every line of
\* the pattern equals the buffer's line or equals it after trimming; -1 when
\* there is none (also when the pattern has more lines than the buffer)
line_match(buffer_lines, old_lines) ==
    LET hits == {i \in 0..(Len(buffer_lines) - Len(old_lines)) :
                    \A k \in 1..Len(old_lines) :
                        \/ buffer_lines[i + k] = old_lines[k]
                        \/ trim_line(buffer_lines[i + k]) = trim_line(old_lines[k])}
    IN IF hits = {} THEN -1 ELSE SetMin(hits)

\* spec 4.6 step 4c: the replacement lines under the matched block's indent
reindent(new_lines, old_lines, original_indent) ==
    [j \in 1..Len(new_lines) |->
        IF j = 1 THEN blanks(original_indent) \o trim_start(new_lines[1])
        ELSE LET delta == indent(new_lines[j]) - indent(old_lines[1])
             IN blanks(original_indent) \o blanks(IF delta > 0 THEN delta ELSE 0)
                \o trim_start(new_lines[j])]

\* spec 4.6 step 4: one edit on the normalized buffer
apply_edit(buffer, edit) ==
    LET old == normalize_line_endings(edit.old_text)
        new == normalize_line_endings(edit.new_text)
        at == find(buffer, old)
        buffer_lines == split_lines(buffer)
        old_lines == split_lines(old)
        i == line_match(buffer_lines, old_lines)
    IN IF at > 0
       THEN Ok(SubSeq(buffer, 1, at - 1) \o new
               \o SubSeq(buffer, at + Len(old), Len(buffer)))
       ELSE IF i = -1 THEN Err("NoMatch")
       ELSE Ok(join_lines(
                SubSeq(buffer_lines, 1, i)
                \o reindent(split_lines(new), old_lines, indent(buffer_lines[i + 1]))
                \o SubSeq(buffer_lines, i + Len(old_lines) + 1, Len(buffer_lines))))

\* an edit loop that passes over an edit that does not match
RECURSIVE apply_edits_skipping_failed(_, _)
apply_edits_skipping_failed(buffer, es) ==
    IF es = <<>> THEN Ok(buffer)
    ELSE LET r == apply_edit(buffer, es[1])
         IN apply_edits_skipping_failed(IF r.ok THEN r.val ELSE buffer, Tail(es))

\* spec 4.6 step 4: the edits in order, each on its predecessor's result;
\* the first that does not match fails the operation
RECURSIVE apply_edits(_, _)
apply_edits(buffer, es) ==
    IF es = <<>> THEN Ok(buffer)
    ELSE LET r == apply_edit(buffer, es[1])
         IN IF ~r.ok THEN r ELSE apply_edits(r.val, Tail(es))

\* an apply_file_edits that writes whatever dry_run says
apply_file_edits_ignoring_dry_run(text, es, dry_run, to_save, saved_before) ==
    LET r == apply_edits(normalize_line_endings(text), es)
        modified == reapply_line_ending(r.val, detect_line_ending(text))
    IN IF ~r.ok THEN [result |-> r, content |-> text, saved |-> saved_before]
       ELSE [result |-> Ok([original |-> text, modified |-> modified]),
             content |-> IF to_save THEN text ELSE modified,
             saved |-> IF to_save THEN Some(modified) ELSE saved_before]

\* spec 4.6 steps 1-7 on a validated path: the result (the two sides of the
\* diff, or the error), the file's text and the save_to target afterwards
apply_file_edits(text, es, dry_run, to_save, saved_before) ==
    LET ending == detect_line_ending(text)
        r == apply_edits(normalize_line_endings(text), es)
        modified == reapply_line_ending(r.val, ending)
    IN IF ~r.ok THEN [result |-> r, content |-> text, saved |-> saved_before]
       ELSE [result |-> Ok([original |-> text, modified |-> modified]),
             content |-> IF dry_run \/ to_save THEN text ELSE modified,
             saved |-> IF ~dry_run /\ to_save THEN Some(modified) ELSE saved_before]

(***************************************************************************)
(* SpecEdit: a file, an edit list and a save_to choice; apply_file_edits   *)
(* is called with them again and again, as a dry run or not.               *)
(***************************************************************************)
MaxEdits == 2

EditOperation(old, new) == [old_text |-> old, new_text |-> new]

\* a pattern of more lines than any file of the model has
LongPattern == [i \in 1..(2 * MaxContent + 3) |-> IF i % 2 = 1 THEN "c" ELSE LF]

EditOps ==
    { EditOperation(<<"a", LF>>, <<"b", LF, "b">>),
      EditOperation(<<" ", "a">>, <<"b">>),
      EditOperation(<<"c">>, <<"a">>),
      EditOperation(LongPattern, <<"b">>) }

InitEdit ==
    /\ content \in Texts
    /\ saved = None
    /\ edits \in SeqsUpTo(EditOps, MaxEdits)
    /\ save_to \in BOOLEAN
    /\ last_edit = None
    /\ IdleLines /\ IdleTools /\ IdleRoots /\ IdleService /\ IdleSearch

ApplyFileEdits(dry_run) ==
    LET out == apply_file_edits(content, edits, dry_run, save_to, saved)
    IN /\ content' = out.content
       /\ saved' = out.saved
       /\ last_edit' = Some([dry_run |-> dry_run, content |-> content,
                             saved |-> saved, result |-> out.result])
       /\ UNCHANGED <<edits, save_to>>
       /\ UNCHANGED <<lineVars, toolVars, rootVars, serviceVars, searchVars>>

NextEdit == \E dry_run \in BOOLEAN : ApplyFileEdits(dry_run)

SpecEdit == InitEdit /\ [][NextEdit]_vars


(***************************************************************************)
(* What the claims about apply_file_edits speak of.                        *)
(***************************************************************************)
\* the text the last call wrote to: the save_to target when one was given
Written == IF save_to THEN (IF IsSome(saved) THEN Unwrap(saved) ELSE <<>>) ELSE content

\* no text of the model holds the letter "c": an edit whose old_text holds it
\* matches neither literally nor line by line
Unmatchable(e) == \E k \in 1..Len(e.old_text) : e.old_text[k] = "c"

HasTerminator(t) == \E i \in 1..Len(t) : t[i] \in {CR, LF}

\* every terminator of the text is the given one
OnlyTerminator(t, ending) ==
    CASE ending = <<CR, LF>> ->
            \A i \in 1..Len(t) :
                /\ t[i] = CR => (i < Len(t) /\ t[i + 1] = LF)
                /\ t[i] = LF => (i > 1 /\ t[i - 1] = CR)
      [] ending = <<CR>> -> \A i \in 1..Len(t) : t[i] # LF
      [] OTHER -> \A i \in 1..Len(t) : t[i] # CR

\* C12: if an edit of the list matches neither literally nor line by line
\* (also one with more lines than the file), the call returns an error, and
\* a call that returns an error has written nothing: the file and the
\* save_to target are as they were before the call, also when earlier edits
\* of the list had matched.
C12_AllOrNothing ==
    IsSome(last_edit) =>
        LET c == Unwrap(last_edit)
        IN /\ (\E i \in 1..Len(edits) : Unmatchable(edits[i])) => ~c.result.ok
           /\ ~c.result.ok => (content = c.content /\ saved = c.saved)

\* the first edit matches line by line, the second does not match
C12_Witness ==
    /\ edits = <<EditOperation(<<" ", "a">>, <<"b">>),
                 EditOperation(<<"c">>, <<"a">>)>>
    /\ last_edit = Some([dry_run |-> FALSE, content |-> <<"a">>, saved |-> None,
                         result |-> Err("NoMatch")])
    /\ content = <<"a">> /\ saved = None

\* an old_text of more lines than the file has
C12_WitnessLongPattern ==
    /\ edits = <<EditOperation(LongPattern, <<"b">>)>>
    /\ IsSome(last_edit) /\ ~Unwrap(last_edit).dry_run
    /\ Unwrap(last_edit).content = <<"a", LF, "a">>
    /\ Unwrap(last_edit).result = Err("NoMatch")
    /\ content = <<"a", LF, "a">>

\* what a call that follows a successful dry run with dry_run = false must
\* do, the text it leaves the diff's new side in being given
AfterDryRun(holder) ==
    (/\ IsSome(last_edit)
     /\ Unwrap(last_edit).dry_run /\ Unwrap(last_edit).result.ok
     /\ last_edit' # last_edit /\ ~Unwrap(last_edit').dry_run)
    => /\ Unwrap(last_edit').result = Unwrap(last_edit).result
       /\ holder = Unwrap(last_edit').result.val.modified

DryRunWritesNothing ==
    (IsSome(last_edit) /\ Unwrap(last_edit).dry_run) =>
        (content = Unwrap(last_edit).content /\ saved = Unwrap(last_edit).saved)

\* C13 as stated: a dry run writes nothing, and after a successful dry run
\* the same call with dry_run = false succeeds with the identical diff and
\* leaves the edited file holding the diff's new side.
C13_DryRunThenFileHoldsNewSide ==
    []DryRunWritesNothing /\ [][AfterDryRun(content')]_vars

\* C13 as amended: a dry run writes nothing, and after a successful dry run
\* the same call with dry_run = false succeeds with the identical diff and
\* leaves the file it writes (the save_to target when one is given, else the
\* edited file) holding the diff's new side.
C13_DryRunThenWrittenHoldsNewSide ==
    []DryRunWritesNothing /\ [][AfterDryRun(Written')]_vars

\* a dry run that succeeded with a diff that changes the text
C13_Witness ==
    /\ IsSome(last_edit) /\ Unwrap(last_edit).dry_run
    /\ Unwrap(last_edit).result =
          Ok([original |-> <<"a", LF>>, modified |-> <<"b", LF, "b">>])
    /\ content = <<"a", LF>> /\ saved = None

\* C14: a file whose terminators are all CRLF (all CR, all LF) is written
\* with only that terminator, also when the edit's texts use LF.
C14_LineEndingPreserved ==
    (IsSome(last_edit) /\ ~Unwrap(last_edit).dry_run /\ Unwrap(last_edit).result.ok)
    => \A ending \in {<<CR, LF>>, <<CR>>, <<LF>>} :
          (HasTerminator(Unwrap(last_edit).content)
           /\ OnlyTerminator(Unwrap(last_edit).content, ending))
          => (Written = Unwrap(last_edit).result.val.modified
              /\ OnlyTerminator(Written, ending))

\* a CRLF file edited with LF-only texts
C14_Witness ==
    /\ edits = <<EditOperation(<<"a", LF>>, <<"b", LF, "b">>)>>
    /\ ~save_to
    /\ IsSome(last_edit) /\ ~Unwrap(last_edit).dry_run
    /\ Unwrap(last_edit).content = <<"a", CR, LF>>
    /\ content = <<"b", CR, LF, "b">>

\* C15: with an empty edit list and dry_run = false the call succeeds and
\* the file's text is what it was, for every text.
C15_NoEditsIsIdentity ==
    (edits = <<>> /\ IsSome(last_edit) /\ ~Unwrap(last_edit).dry_run)
    => /\ Unwrap(last_edit).result.ok
       /\ Written = Unwrap(last_edit).content


(***************************************************************************)
(* Directory searches (fs_service/search).  A searched tree maps a path, a *)
(* sequence of names, to a node; a name is the sequence of its characters, *)
(* so that a hidden name is one whose first character is a dot and a glob  *)
(* is matched against text.  A node is a directory, a regular file holding *)
(* the content its tag stands for, or nothing.                             *)
(***************************************************************************)
Absent == [kind |-> "none", data |-> ""]
Directory == [kind |-> "dir", data |-> ""]
RegularFile(tag) == [kind |-> "file", data |-> tag]

Node(t, p) == IF p \in DOMAIN t THEN t[p] ELSE Absent
Kinds(t) ==
    [p \in DOMAIN t |-> IF t[p].kind = "file" THEN "file0" ELSE t[p].kind]

SearchRoot == << <<"r">> >>
Outside == << <<"o">> >>
SearchAllowed == <<SearchRoot>>

\* every path of the tree has a directory for parent, up to the search root
WellFormed(t) ==
    \A p \in DOMAIN t :
        (t[p].kind # "none" /\ Len(p) > 1) =>
            Node(t, SubSeq(p, 1, Len(p) - 1)).kind = "dir"

file_name(p) == p[Len(p)]

\* ignore::WalkBuilder with hidden(true): a name starting with a dot is
\* skipped, and with it everything below; the walk's own root is never
\* skipped
is_hidden(name) == name # <<>> /\ name[1] = "."

WalkBuilder(t, root, skip_hidden) ==
    {q \in DOMAIN t :
        /\ starts_with(q, root)
        /\ t[q].kind # "none"
        /\ skip_hidden =>
              \A n \in (Len(root) + 1)..Len(q) : ~is_hidden(q[n])}

\* files.rs 51-141 called with the pattern "**/*", no exclude patterns, no
\* extension filter and no size filter: every entry of the walk but the
\* root
walk_entries(t, root) == WalkBuilder(t, root, TRUE) \ {root}

(***************************************************************************)
(* find_duplicate_files (files.rs 146-262).  A content is its size in      *)
(* bytes, the bytes of its first 4096 (head) and the bytes after them      *)
(* (tail); SHA-256 is collision-free, so a digest is the bytes digested.   *)
(***************************************************************************)
quick_hash_bytes == 4096

ContentTags ==
    {"small-x", "small-y", "large-xp", "large-xq", "larger-xp", "locked-x"}

FileData(tag) ==
    CASE tag = "small-x" ->
            [size |-> 10, head |-> "x", tail |-> "", readable |-> TRUE]
      [] tag = "small-y" ->
            [size |-> 10, head |-> "y", tail |-> "", readable |-> TRUE]
      [] tag = "large-xp" ->
            [size |-> 5000, head |-> "X", tail |-> "p", readable |-> TRUE]
      [] tag = "large-xq" ->
            [size |-> 5000, head |-> "X", tail |-> "q", readable |-> TRUE]
      [] tag = "larger-xp" ->
            [size |-> 6000, head |-> "X", tail |-> "pp", readable |-> TRUE]
      [] tag = "locked-x" ->
            [size |-> 10, head |-> "x", tail |-> "", readable |-> FALSE]

\* the bytes a file holds
Bytes_of(t, p) ==
    LET d == FileData(t[p].data) IN <<d.size, d.head, d.tail>>
Readable(t, p) == FileData(t[p].data).readable

\* files.rs 175-193: the walk's regular files keyed by metadata.len(); the
\* sizes more than one file has
size_groups(t, root) ==
    LET files == {p \in walk_entries(t, root) : t[p].kind = "file"}
        size(p) == FileData(t[p].data).size
    IN {g \in {{q \in files : size(q) = size(p)} : p \in files} :
            Cardinality(g) > 1}

\* files.rs 203-209: SHA-256 of what one read of a 4096-byte buffer returns
quick_hash(t, p) ==
    LET d == FileData(t[p].data)
    IN <<Min2(d.size, quick_hash_bytes), d.head>>

\* files.rs 196-217: one map for all size groups; a file that cannot be
\* opened is dropped
quick_hash_map(t, root) ==
    LET files == {p \in UNION size_groups(t, root) : Readable(t, p)}
    IN {{q \in files : quick_hash(t, q) = quick_hash(t, p)} : p \in files}

full_hash_of_first_read(t, p) == quick_hash(t, p)

\* files.rs 233-245: SHA-256 of the whole file, read in 8 KB chunks
full_hash(t, p) == Bytes_of(t, p)

\* files.rs 220-253: the quick-hash buckets of more than one file, rehashed
full_hash_map(t, root) ==
    LET files == {p \in UNION {g \in quick_hash_map(t, root) :
                                    Cardinality(g) > 1} : Readable(t, p)}
    IN {{q \in files : full_hash(t, q) = full_hash(t, p)} : p \in files}

\* files.rs 256-261
duplicates(t, root) ==
    {g \in full_hash_map(t, root) : Cardinality(g) > 1}

\* files.rs 146-262
find_duplicate_files(t, root) ==
    LET valid_path == validate_path(Kinds(t), root, SearchAllowed)
    IN IF ~valid_path.ok THEN Err(valid_path.err)
       ELSE Ok(duplicates(t, valid_path.val))

(***************************************************************************)
(* SpecDedup: every tree of regular files over four places, one of them    *)
(* hidden and one in a subdirectory; one call of find_duplicate_files on   *)
(* the root or on a directory outside the allowed one.                     *)
(***************************************************************************)
DedupPlaces ==
    { SearchRoot \o << <<"a">> >>, SearchRoot \o << <<"b">> >>,
      SearchRoot \o << <<"s">>, <<"c">> >>,
      SearchRoot \o << <<".", "h">> >> }

DedupTrees ==
    {t \in [DedupPlaces \cup {SearchRoot, SearchRoot \o << <<"s">> >>, Outside}
                -> {Absent, Directory} \cup {RegularFile(c) : c \in ContentTags}] :
        /\ \A p \in DedupPlaces : t[p].kind # "dir"
        /\ \A p \in DOMAIN t \ DedupPlaces : t[p] = Directory}

InitDedup ==
    /\ tree \in DedupTrees
    /\ request \in {[op |-> "find_duplicate_files", root |-> r] :
                        r \in {SearchRoot, Outside}}
    /\ reply = None
    /\ ast_walk = None
    /\ IdleLines /\ IdleTools /\ IdleRoots /\ IdleService /\ IdleEdit

RunFindDuplicateFiles ==
    /\ reply = None
    /\ reply' = Some(find_duplicate_files(tree, request.root))
    /\ UNCHANGED <<tree, request, ast_walk>>
    /\ UNCHANGED <<lineVars, toolVars, rootVars, serviceVars, editVars>>

NextDedup == RunFindDuplicateFiles

SpecDedup == InitDedup /\ [][NextDedup]_vars

\* the regular files the walk reaches and the operation can read
FilterPassing(t, root) ==
    {p \in walk_entries(t, root) : t[p].kind = "file" /\ Readable(t, p)}

\* C16: the groups find_duplicate_files returns have at least two paths each,
\* hold only files of identical bytes, are pairwise disjoint, never split
\* identical files over two groups, and put every two readable files of the
\* walk that have identical bytes into one group.
C16_DuplicateGroups ==
    (IsSome(reply) /\ Unwrap(reply).ok) =>
        LET groups == Unwrap(reply).val
            files == FilterPassing(tree, request.root)
        IN /\ \A g \in groups : Cardinality(g) >= 2 /\ g \subseteq files
           /\ \A g \in groups : \A p, q \in g :
                  Bytes_of(tree, p) = Bytes_of(tree, q)
           /\ \A g, h \in groups : g # h =>
                  /\ g \cap h = {}
                  /\ \A p \in g, q \in h :
                         Bytes_of(tree, p) # Bytes_of(tree, q)
           /\ \A p, q \in files :
                  (p # q /\ Bytes_of(tree, p) = Bytes_of(tree, q)) =>
                      \E g \in groups : p \in g /\ q \in g

\* two groups at once, beside files sharing a size and a first chunk only and
\* a hidden file: /r/a = /r/s/c in bytes, /r/b has their size and head
C16_Witness ==
    /\ IsSome(reply) /\ Unwrap(reply).ok
    /\ tree[SearchRoot \o << <<"a">> >>] = RegularFile("large-xp")
    /\ tree[SearchRoot \o << <<"b">> >>] = RegularFile("large-xq")
    /\ tree[SearchRoot \o << <<"s">>, <<"c">> >>] = RegularFile("large-xp")
    /\ tree[SearchRoot \o << <<".", "h">> >>] = RegularFile("large-xq")
    /\ Unwrap(reply).val =
          {{SearchRoot \o << <<"a">> >>, SearchRoot \o << <<"s">>, <<"c">> >>}}

(***************************************************************************)
(* find_empty_directories (tree.rs 192-230)                                *)
(***************************************************************************)
DS_Store == <<".", "D", "S", "_", "S", "t", "o", "r", "e">>
Thumbs_db == <<"T", "h", "u", "m", "b", "s", ".", "d", "b">>

\* utils.rs 150-152
is_system_metadata_file(filename) ==
    filename = DS_Store \/ filename = Thumbs_db

\* tree.rs 215-224: a second walk, rooted at the directory, hidden names
\* skipped; empty when every entry is a non-file or a metadata file
is_empty(t, dir) ==
    \A e \in WalkBuilder(t, dir, TRUE) :
        t[e].kind # "file" \/ is_system_metadata_file(file_name(e))

\* tree.rs 192-230
find_empty_directories_in(t, root) ==
    LET valid_path == validate_path(Kinds(t), root, SearchAllowed)
    IN IF ~valid_path.ok THEN Err(valid_path.err)
       ELSE Ok({d \in walk_entries(t, valid_path.val) :
                    t[d].kind = "dir" /\ is_empty(t, d)})

(***************************************************************************)
(* SpecEmpty: every well-formed tree over three directories (one hidden)   *)
(* and six files, among them the two metadata names and a hidden file of   *)
(* another name; one call of find_empty_directories.                       *)
(***************************************************************************)
EmptyDirs ==
    { SearchRoot \o << <<"d">> >>, SearchRoot \o << <<"d">>, <<"e">> >>,
      SearchRoot \o << <<".", "g">> >> }

EmptyFiles ==
    { SearchRoot \o << <<"f">> >>,
      SearchRoot \o << <<"d">>, Thumbs_db >>,
      SearchRoot \o << <<"d">>, DS_Store >>,
      SearchRoot \o << <<"d">>, <<".", "e", "n", "v">> >>,
      SearchRoot \o << <<"d">>, <<"e">>, <<"f">> >>,
      SearchRoot \o << <<"d">>, <<"e">>, Thumbs_db >> }

EmptyTrees ==
    {t \in [EmptyDirs \cup EmptyFiles \cup {SearchRoot, Outside}
                -> {Absent, Directory, RegularFile("small-x")}] :
        /\ \A p \in EmptyDirs : t[p].kind # "file"
        /\ \A p \in EmptyFiles : t[p].kind # "dir"
        /\ t[SearchRoot] = Directory /\ t[Outside] = Directory
        /\ WellFormed(t)}

InitEmpty ==
    /\ tree \in EmptyTrees
    /\ request \in {[op |-> "find_empty_directories", root |-> r] :
                        r \in {SearchRoot, Outside}}
    /\ reply = None
    /\ ast_walk = None
    /\ IdleLines /\ IdleTools /\ IdleRoots /\ IdleService /\ IdleEdit

RunFindEmptyDirectories ==
    /\ reply = None
    /\ reply' = Some(find_empty_directories_in(tree, request.root))
    /\ UNCHANGED <<tree, request, ast_walk>>
    /\ UNCHANGED <<lineVars, toolVars, rootVars, serviceVars, editVars>>

NextEmpty == RunFindEmptyDirectories

SpecEmpty == InitEmpty /\ [][NextEmpty]_vars

\* the regular files at any depth below a directory that are not OS metadata
OtherFilesBelow(t, dir) ==
    {q \in DOMAIN t :
        /\ starts_with(q, dir) /\ q # dir
        /\ t[q].kind = "file"
        /\ ~is_system_metadata_file(file_name(q))}

\* C17: find_empty_directories reports exactly the directories below the
\* root (never the root) that hold, at any depth, no regular file other
\* than .DS_Store and Thumbs.db.
C17_EmptyIffNoOtherFile ==
    (IsSome(reply) /\ Unwrap(reply).ok) =>
        Unwrap(reply).val =
            {d \in DOMAIN tree :
                /\ starts_with(d, request.root) /\ d # request.root
                /\ tree[d].kind = "dir"
                /\ OtherFilesBelow(tree, d) = {}}

(***************************************************************************)
(* search_files_content (content.rs 177-343)                               *)
(***************************************************************************)
\* Path::to_string_lossy of an absolute path
RECURSIVE path_text(_)
path_text(p) ==
    IF p = <<>> THEN <<>>
    ELSE path_text(SubSeq(p, 1, Len(p) - 1)) \o <<"/">> \o p[Len(p)]

\* Path::strip_prefix(root).unwrap_or(path), as text
relative_path(p, root) ==
    IF starts_with(p, root) /\ p # root
    THEN Tail(path_text(SubSeq(p, Len(root) + 1, Len(p))))
    ELSE path_text(p)

\* glob_match::glob_match for globs made of literals, "*" and a leading or
\* inner "**/": "*" stands for a run of characters other than the separator,
\* "**/" for zero or more whole segments
RECURSIVE glob_match(_, _)
glob_match(glob, path) ==
    IF glob = <<>> THEN path = <<>>
    ELSE IF Len(glob) >= 3 /\ SubSeq(glob, 1, 3) = <<"*", "*", "/">>
    THEN \E i \in 0..Len(path) :
            /\ IF i = 0 THEN TRUE ELSE path[i] = "/"
            /\ glob_match(SubSeq(glob, 4, Len(glob)),
                          SubSeq(path, i + 1, Len(path)))
    ELSE IF glob[1] = "*"
    THEN \E i \in 0..Len(path) :
            /\ \A j \in 1..i : path[j] # "/"
            /\ glob_match(Tail(glob), SubSeq(path, i + 1, Len(path)))
    ELSE IF path = <<>> THEN FALSE
    ELSE path[1] = glob[1] /\ glob_match(Tail(glob), Tail(path))

\* utils.rs 214-230
SPECIAL_CHARS ==
    {".", "^", "$", "*", "+", "?", "(", ")", "[", "]", "{", "}", "\\", "|", "/"}

RECURSIVE escape_regex(_)
escape_regex(text) ==
    IF text = <<>> THEN <<>>
    ELSE (IF text[1] \in SPECIAL_CHARS THEN <<"\\", text[1]>> ELSE <<text[1]>>)
         \o escape_regex(Tail(text))

\* RegexMatcherBuilder::build on patterns of literals, escapes and groups:
\* the number of groups left open, or -1 when the pattern is refused (a ")"
\* without its "(", an escape without its character)
RECURSIVE open_groups(_, _)
open_groups(pattern, depth) ==
    IF pattern = <<>> THEN depth
    ELSE IF pattern[1] = "\\"
    THEN IF Len(pattern) = 1 THEN -1
         ELSE open_groups(SubSeq(pattern, 3, Len(pattern)), depth)
    ELSE IF pattern[1] = "(" THEN open_groups(Tail(pattern), depth + 1)
    ELSE IF pattern[1] = ")"
    THEN IF depth = 0 THEN -1 ELSE open_groups(Tail(pattern), depth - 1)
    ELSE open_groups(Tail(pattern), depth)

regex_builds(pattern) == open_groups(pattern, 0) = 0

\* the literal a pattern of literals, escapes and groups stands for
RECURSIVE literal_of(_)
literal_of(pattern) ==
    IF pattern = <<>> THEN <<>>
    ELSE IF pattern[1] = "\\" /\ Len(pattern) >= 2
    THEN <<pattern[2]>> \o literal_of(SubSeq(pattern, 3, Len(pattern)))
    ELSE IF pattern[1] \in {"(", ")"} THEN literal_of(Tail(pattern))
    ELSE <<pattern[1]>> \o literal_of(Tail(pattern))

\* content.rs 298-343: Err when the matcher cannot be built or the file
\* cannot be read, Ok(None) without a matching line, else Ok(Some(path)); a
\* file of the model holds one line, the character of its head
search_file_content_static(t, query, p) ==
    IF ~regex_builds(query) THEN Err("regex")
    ELSE IF ~Readable(t, p) THEN Err("io")
    ELSE IF literal_of(query) = <<FileData(t[p].data).head>>
    THEN Ok(Some(p))
    ELSE Ok(None)

\* content.rs 242-245: the include glob against the absolute path
content_include(pattern, p, root) == glob_match(pattern, path_text(p))

\* content.rs 177-294 without exclude patterns and size bounds
search_files_content_in(t, root, pattern, query, is_regex) ==
    LET valid_path == validate_path(Kinds(t), root, SearchAllowed)
        search_query == IF is_regex THEN query ELSE escape_regex(query)
        found(p) == search_file_content_static(t, search_query, p)
    IN IF ~valid_path.ok THEN Err(valid_path.err)
       ELSE Ok({p \in WalkBuilder(t, root, TRUE) :
                    /\ t[p].kind = "file"
                    /\ content_include(pattern, p, root)
                    /\ found(p).ok
                    /\ IsSome(found(p).val)})

(***************************************************************************)
(* SpecContent: every tree over four files (three directly under the root, *)
(* one in a subdirectory), each absent, holding "x", holding "y" or        *)
(* unreadable; one call of search_files_content.                           *)
(***************************************************************************)
Txt(c) == <<c, ".", "t", "x", "t">>

TextPlaces ==
    { SearchRoot \o <<Txt("a")>>, SearchRoot \o <<Txt("b")>>,
      SearchRoot \o << <<"n", ".", "m", "d">> >>,
      SearchRoot \o << <<"s">>, Txt("c") >> }

TextTrees ==
    {t \in [TextPlaces \cup {SearchRoot, SearchRoot \o << <<"s">> >>, Outside}
                -> {Absent, Directory}
                   \cup {RegularFile(c) : c \in {"small-x", "small-y", "locked-x"}}] :
        /\ \A p \in TextPlaces : t[p].kind # "dir"
        /\ \A p \in DOMAIN t \ TextPlaces : t[p] = Directory}

IncludeGlobs == { <<"*", ".", "t", "x", "t">>,
                  <<"*", "*", "/", "*", ".", "t", "x", "t">> }

Queries == { <<"x">>, <<"(">>, <<"(", "x", ")">> }

InitContent ==
    /\ tree \in TextTrees
    /\ request \in {[op |-> "search_files_content", root |-> r, pattern |-> g,
                     query |-> q, is_regex |-> b] :
                        r \in {SearchRoot, Outside}, g \in IncludeGlobs,
                        q \in Queries, b \in BOOLEAN}
    /\ reply = None
    /\ ast_walk = None
    /\ IdleLines /\ IdleTools /\ IdleRoots /\ IdleService /\ IdleEdit

RunSearchFilesContent ==
    /\ reply = None
    /\ reply' = Some(search_files_content_in(tree, request.root,
                        request.pattern, request.query, request.is_regex))
    /\ UNCHANGED <<tree, request, ast_walk>>
    /\ UNCHANGED <<lineVars, toolVars, rootVars, serviceVars, editVars>>

NextContent == RunSearchFilesContent

SpecContent == InitContent /\ [][NextContent]_vars

\* C18: with is_regex and a query that does not compile the call returns an
\* error, never a list; with a query that compiles an unreadable file does
\* not fail the call.
C18_InvalidRegexIsError ==
    (IsSome(reply) /\ request.root = SearchRoot) =>
        IF request.is_regex /\ ~regex_builds(request.query)
        THEN ~Unwrap(reply).ok
        ELSE Unwrap(reply).ok

(***************************************************************************)
(* search_files_ast (ast.rs 190-374).  A worker of the parallel walk takes *)
(* an entry, filters it and bumps the shared counter in one step and       *)
(* parses the file in a later one; ast_walk holds the entries not yet      *)
(* handed out, the counter, the walk's state, what each worker holds and   *)
(* what was sent on the channel.                                           *)
(***************************************************************************)
MAX_FILES_WARNING == 2000
MAX_FILES_LIMIT == 10000
MAX_FILE_SIZE == 1048576

\* globset::GlobSet::is_match for a Glob::new glob made of literals, "*" and
\* "**/": without literal_separator "*" stands for any run of characters
RECURSIVE is_match(_, _)
is_match(glob, path) ==
    IF glob = <<>> THEN path = <<>>
    ELSE IF Len(glob) >= 3 /\ SubSeq(glob, 1, 3) = <<"*", "*", "/">>
    THEN \E i \in 0..Len(path) :
            /\ IF i = 0 THEN TRUE ELSE path[i] = "/"
            /\ is_match(SubSeq(glob, 4, Len(glob)),
                        SubSeq(path, i + 1, Len(path)))
    ELSE IF glob[1] = "*"
    THEN \E i \in 0..Len(path) :
            is_match(Tail(glob), SubSeq(path, i + 1, Len(path)))
    ELSE IF path = <<>> THEN FALSE
    ELSE path[1] = glob[1] /\ is_match(Tail(glob), Tail(path))

\* ast.rs 267-307 without exclude patterns and extension filter: a regular
\* file whose path relative to the root matches the include glob and whose
\* size is at most MAX_FILE_SIZE
ast_include(t, root, pattern, p) ==
    /\ t[p].kind = "file"
    /\ is_match(pattern, relative_path(p, root))
    /\ FileData(t[p].data).size <= MAX_FILE_SIZE

\* ast.rs 311-314: fetch_add returns the counter before the addition
fetch_add_quits_late(count) == count > MAX_FILES_LIMIT

fetch_add_quits(count) == count >= MAX_FILES_LIMIT

\* ast.rs 317-345: read_to_string, then the pattern's matches in the file (a
\* file of the model holds a match when its head is "x")
ast_file_matches(t, p) ==
    Readable(t, p) /\ FileData(t[p].data).head = "x"

\* ast.rs 357-371: what is printed once the walk is over
feedback(final_count) ==
    IF final_count >= MAX_FILES_LIMIT THEN "warning"
    ELSE IF final_count >= MAX_FILES_WARNING THEN "info"
    ELSE "none"

\* the counts of further filter-passing files around the two thresholds
MaxLate == 1
BulkCounts ==
    { MAX_FILES_WARNING - 1, MAX_FILES_WARNING, MAX_FILES_LIMIT - 1,
      MAX_FILES_LIMIT, MAX_FILES_LIMIT + 1 }

BareTree ==
    [p \in {SearchRoot, Outside} |-> Directory]

\* str::to_lowercase on the aliases of the model
alias_to_lowercase(language) ==
    CASE language = "RS" -> "rs"
      [] language = "Rust" -> "rust"
      [] OTHER -> language

\* ast.rs 138-170: the alias table, "Unsupported language" for the rest
parse_language(language) ==
    LET alias == alias_to_lowercase(language)
    IN CASE alias \in {"typescript", "ts"} -> Ok("TypeScript")
         [] alias = "tsx" -> Ok("Tsx")
         [] alias \in {"javascript", "js"} -> Ok("JavaScript")
         [] alias \in {"python", "py"} -> Ok("Python")
         [] alias \in {"rust", "rs"} -> Ok("Rust")
         [] alias = "go" -> Ok("Go")
         [] alias = "java" -> Ok("Java")
         [] alias \in {"kotlin", "kt"} -> Ok("Kotlin")
         [] alias \in {"cpp", "c++", "cxx"} -> Ok("Cpp")
         [] alias = "c" -> Ok("C")
         [] alias \in {"csharp", "c#", "cs"} -> Ok("CSharp")
         [] alias = "swift" -> Ok("Swift")
         [] alias \in {"ruby", "rb"} -> Ok("Ruby")
         [] alias = "php" -> Ok("Php")
         [] alias = "html" -> Ok("Html")
         [] alias = "css" -> Ok("Css")
         [] alias = "json" -> Ok("Json")
         [] alias \in {"yaml", "yml"} -> Ok("Yaml")
         [] alias \in {"bash", "sh"} -> Ok("Bash")
         [] alias = "lua" -> Ok("Lua")
         [] alias \in {"elixir", "ex"} -> Ok("Elixir")
         [] alias = "scala" -> Ok("Scala")
         [] alias \in {"haskell", "hs"} -> Ok("Haskell")
         [] alias \in {"solidity", "sol"} -> Ok("Solidity")
         [] alias = "nix" -> Ok("Nix")
         [] alias \in {"hcl", "terraform"} -> Ok("Hcl")
         [] OTHER -> Err("Unsupported language")

\* a pattern is what the parser makes of it: whether the text is blank,
\* whether the parsed root has no text, whether the pattern holds ERROR nodes
AstPattern(blank, empty_root, error_nodes) ==
    [trimmed_is_empty |-> blank,
     root_text_is_empty |-> empty_root,
     has_error |-> error_nodes]

\* ast.rs 108-136
validate_pattern_accepting(pattern, lang) ==
    Ok(lang)

validate_pattern(pattern, lang) ==
    IF pattern.root_text_is_empty /\ ~pattern.trimmed_is_empty
    THEN Err("Invalid AST pattern syntax")
    ELSE IF pattern.has_error
    THEN Err("Invalid AST pattern syntax")
    ELSE Ok(lang)

\* the aliases and the (non-blank) patterns of the requests
Languages == {"RS", "cobol"}
AstPatterns ==
    { AstPattern(FALSE, FALSE, FALSE), AstPattern(FALSE, TRUE, FALSE),
      AstPattern(FALSE, FALSE, TRUE) }

\* the threads of the parallel walker
MaxWorkers == 2
Workers == 1..MaxWorkers

\* one of the files counted by request.bulk, as an entry handed to a worker
BulkFile == <<>>

\* SpecAst: either a small tree of text files searched with each include
\* glob, or a tree holding request.bulk regular files that pass every filter
\* and hold no match
InitAst ==
    /\ \/ /\ tree \in TextTrees
          /\ request \in {[op |-> "search_files_ast", root |-> r,
                           pattern |-> g, language |-> l, ast_pattern |-> a,
                           bulk |-> 0] :
                              r \in {SearchRoot, Outside}, g \in IncludeGlobs,
                              l \in Languages, a \in AstPatterns}
       \/ /\ tree = BareTree
          /\ request \in {[op |-> "search_files_ast", root |-> SearchRoot,
                           pattern |-> <<"*">>, language |-> "RS",
                           ast_pattern |-> AstPattern(FALSE, FALSE, FALSE),
                           bulk |-> n] : n \in BulkCounts}
    /\ reply = None
    /\ ast_walk = None
    /\ IdleLines /\ IdleTools /\ IdleRoots /\ IdleService /\ IdleEdit

\* ast.rs 203-250: the language, then the pattern, then the root, then the
\* walker, the channel and the counter
StartAst ==
    /\ reply = None /\ ast_walk = None
    /\ LET lang == parse_language(request.language)
           valid_pattern == IF lang.ok
                            THEN validate_pattern(request.ast_pattern, lang.val)
                            ELSE lang
           valid_path == validate_path(Kinds(tree), request.root, SearchAllowed)
       IN IF ~lang.ok
          THEN reply' = Some(Err(lang.err)) /\ UNCHANGED ast_walk
          ELSE IF ~valid_pattern.ok
          THEN reply' = Some(Err(valid_pattern.err)) /\ UNCHANGED ast_walk
          ELSE IF ~valid_path.ok
          THEN reply' = Some(Err(valid_path.err)) /\ UNCHANGED ast_walk
          ELSE /\ ast_walk' =
                    Some([pending |-> WalkBuilder(tree, request.root, TRUE),
                          bulk |-> request.bulk,
                          file_count |-> 0, state |-> "Continue",
                          late |-> 0, parsed |-> 0, parsed_files |-> {},
                          validations |-> 1,
                          workers |-> [worker \in Workers |-> None],
                          channel |-> <<>>])
               /\ UNCHANGED reply
    /\ UNCHANGED <<tree, request>>
    /\ UNCHANGED <<lineVars, toolVars, rootVars, serviceVars, editVars>>

\* a worker may still be handed an entry after another returned Quit
MayVisit(w) ==
    w.state = "Continue" \/ w.late < MaxLate

\* ast.rs 258-314 for the entry a worker was handed: the filters, then the
\* shared counter; the worker keeps the file when it goes on to parse it
Filter(w, worker, entry, included) ==
    LET rest == [w EXCEPT !.late = IF w.state = "Quit" THEN @ + 1 ELSE @]
    IN IF ~included
       THEN rest
       ELSE IF fetch_add_quits(w.file_count)
       THEN [rest EXCEPT !.file_count = @ + 1, !.state = "Quit"]
       ELSE [rest EXCEPT !.file_count = @ + 1,
                         !.workers[worker] = Some(entry)]

\* ast.rs 258-314 on one entry of the tree
VisitEntry ==
    /\ reply = None /\ IsSome(ast_walk)
    /\ LET w == Unwrap(ast_walk)
       IN /\ MayVisit(w)
          /\ \E worker \in Workers, p \in w.pending :
               /\ w.workers[worker] = None
               /\ ast_walk' =
                    Some(Filter([w EXCEPT !.pending = @ \ {p}], worker, p,
                                ast_include(tree, request.root,
                                            request.pattern, p)))
    /\ UNCHANGED <<tree, request, reply>>
    /\ UNCHANGED <<lineVars, toolVars, rootVars, serviceVars, editVars>>

\* ast.rs 258-314 on one of the files counted by request.bulk
VisitBulk ==
    /\ reply = None /\ IsSome(ast_walk)
    /\ LET w == Unwrap(ast_walk)
       IN /\ MayVisit(w)
          /\ w.bulk > 0
          /\ \E worker \in Workers :
               /\ w.workers[worker] = None
               /\ ast_walk' =
                    Some(Filter([w EXCEPT !.bulk = @ - 1], worker, BulkFile,
                                TRUE))
    /\ UNCHANGED <<tree, request, reply>>
    /\ UNCHANGED <<lineVars, toolVars, rootVars, serviceVars, editVars>>

\* ast.rs 317-335: the number of matches found in the file, none when it
\* cannot be read or is empty
find_all(t, entry) ==
    IF entry = BulkFile THEN 0
    ELSE IF ast_file_matches(t, entry) THEN 1 ELSE 0

\* ast.rs 337-343: a result is sent only with a match in it
send_unconditionally(channel, file_path, matches) ==
    Append(channel, [file_path |-> file_path, matches |-> matches])

send(channel, file_path, matches) ==
    IF matches # 0
    THEN Append(channel, [file_path |-> file_path, matches |-> matches])
    ELSE channel

\* ast.rs 317-346: the worker reads and parses the file it kept and sends
\* what it found
ParseFile ==
    /\ reply = None /\ IsSome(ast_walk)
    /\ LET w == Unwrap(ast_walk)
       IN \E worker \in Workers :
            /\ w.workers[worker] # None
            /\ LET entry == Unwrap(w.workers[worker])
               IN ast_walk' =
                    Some([w EXCEPT
                            !.workers[worker] = None,
                            !.parsed = @ + 1,
                            !.parsed_files =
                                IF entry = BulkFile THEN @ ELSE @ \cup {entry},
                            !.channel =
                                send(@, entry, find_all(tree, entry))])
    /\ UNCHANGED <<tree, request, reply>>
    /\ UNCHANGED <<lineVars, toolVars, rootVars, serviceVars, editVars>>

\* run() has returned: no worker holds a file and nothing is left to hand
\* out, or the walk was stopped
WorkersFinished ==
    /\ IsSome(ast_walk)
    /\ LET w == Unwrap(ast_walk)
       IN /\ \A worker \in Workers : w.workers[worker] = None
          /\ (w.pending = {} /\ w.bulk = 0) \/ w.state = "Quit"

\* ast.rs 351-373: the channel closed, the results collected and the
\* feedback printed
FinishAst ==
    /\ reply = None /\ WorkersFinished
    /\ LET w == Unwrap(ast_walk)
       IN reply' = Some([ok |-> TRUE,
                         val |-> {w.channel[i].file_path :
                                     i \in 1..Len(w.channel)},
                         results |-> w.channel,
                         feedback |-> feedback(w.file_count)])
    /\ UNCHANGED <<tree, request, ast_walk>>
    /\ UNCHANGED <<lineVars, toolVars, rootVars, serviceVars, editVars>>

NextAst == StartAst \/ VisitEntry \/ VisitBulk \/ ParseFile \/ FinishAst

SpecAst == InitAst /\ [][NextAst]_vars

\* the files that passed the filters: those the tree lists and those
\* request.bulk counts
MatchedFiles ==
    request.bulk
    + Cardinality({p \in WalkBuilder(tree, request.root, TRUE) :
                      ast_include(tree, request.root, request.pattern, p)})

\* C20: once search_files_ast has returned, with 10,000 or more files matched
\* by the filters the walk was aborted and the warning printed; with at
\* least 2,000 and fewer than 10,000 only the note was printed and the walk
\* ran to its end; below 2,000 nothing was printed.
C20_Thresholds ==
    (IsSome(reply) /\ Unwrap(reply).ok /\ IsSome(ast_walk)) =>
        LET w == Unwrap(ast_walk)
            out == Unwrap(reply).feedback
        IN CASE MatchedFiles >= MAX_FILES_LIMIT ->
                    w.state = "Quit" /\ out = "warning"
             [] MatchedFiles >= MAX_FILES_WARNING ->
                    w.state = "Continue" /\ out = "info"
             [] OTHER -> w.state = "Continue" /\ out = "none"

\* the regular files directly under the searched root whose name ends in
\* ".txt" and that hold what the request looks for
TxtHitsUnderRoot ==
    {p \in WalkBuilder(tree, request.root, TRUE) :
        /\ Len(p) = Len(request.root) + 1
        /\ tree[p].kind = "file"
        /\ Len(file_name(p)) > 4
        /\ SubSeq(file_name(p), Len(file_name(p)) - 3, Len(file_name(p)))
              = <<".", "t", "x", "t">>
        /\ IF request.op = "search_files_content"
           THEN LET q == IF request.is_regex THEN request.query
                         ELSE escape_regex(request.query)
                IN search_file_content_static(tree, q, p) = Ok(Some(p))
           ELSE ast_file_matches(tree, p)}

\* C19: search_files_content and search_files_ast match the include glob
\* against the path relative to the root: with "*.txt" every .txt file
\* directly under the root that holds a match is among the results.
C19_GlobRelativeToRoot ==
    (/\ IsSome(reply) /\ Unwrap(reply).ok
     /\ request.op \in {"search_files_content", "search_files_ast"}
     /\ request.pattern = <<"*", ".", "t", "x", "t">>) =>
        TxtHitsUnderRoot \subseteq Unwrap(reply).val

(***************************************************************************)
(* extract_snippet (content.rs 98-174).  A line is its UTF-8 bytes: "a" a  *)
(* one-byte character, " " a one-byte whitespace, "E1" "E2" "E3" the three *)
(* bytes of one character.  Byte indices count from 0 as in the code.      *)
(***************************************************************************)
MaxLineChars == 4
MaxLength == 2
MaxBackward == 3

Utf8(c) == IF c = "E" THEN <<"E1", "E2", "E3">> ELSE <<c>>

RECURSIVE encode(_)
encode(chars) ==
    IF chars = <<>> THEN <<>> ELSE Utf8(chars[1]) \o encode(Tail(chars))

\* str::is_char_boundary
is_char_boundary(s, i) ==
    i = 0 \/ i = Len(s) \/ (i < Len(s) /\ s[i + 1] \notin {"E2", "E3"})

\* str::char_indices, the indices only
char_indices(s) == {i \in 0..(Len(s) - 1) : s[i + 1] \notin {"E2", "E3"}}

\* a well-formed string: every three-byte character is whole
valid_utf8(s) ==
    \A i \in 1..Len(s) :
        /\ s[i] = "E1" => (i + 2 <= Len(s) /\ s[i + 1] = "E2" /\ s[i + 2] = "E3")
        /\ s[i] = "E2" => (i > 1 /\ s[i - 1] = "E1")
        /\ s[i] = "E3" => (i > 1 /\ s[i - 1] = "E2")

\* line.len() - line.trim_start().len()
leading_whitespace(s) ==
    SetMin({i \in 0..Len(s) : i = Len(s) \/ s[i + 1] # " "})

\* str::trim
trim_str(s) ==
    LET first == leading_whitespace(s)
        last == SetMax({i \in 0..Len(s) : i = 0 \/ s[i] # " "})
    IN IF first >= last THEN <<>> ELSE SubSeq(s, first + 1, last)

\* usize subtraction: a panic in a build with overflow checks, else the
\* difference modulo the word size (at least 16 bits; every width gives a
\* value beyond the lines of the model)
usize_sub(a, b, overflow_checks) ==
    IF a >= b THEN Ok(a - b)
    ELSE IF overflow_checks THEN Err("panic")
    ELSE Ok((a - b) % (2 ^ 16))

saturating_sub(a, b) == IF a >= b THEN a - b ELSE 0

\* content.rs 98-156: Err("panic") or Ok of the chosen byte range of the
\* trimmed line and the string returned
extract_snippet_static(line, match_start, max_length, backward_chars, overflow_checks) ==
    LET start_pos == leading_whitespace(line)
        trimmed == trim_str(line)
        shifted == usize_sub(match_start, start_pos, overflow_checks)
    IN IF ~shifted.ok THEN Err("panic")
       ELSE
       LET desired_start == saturating_sub(shifted.val, backward_chars)
           from == {i \in char_indices(trimmed) : i >= desired_start}
           snippet_start == IF from # {} THEN SetMin(from)
                            ELSE Min2(desired_start, Len(trimmed))
       IN IF ~is_char_boundary(trimmed, snippet_start) THEN Err("panic")
          ELSE
          LET after == {i \in char_indices(trimmed) : i >= snippet_start}
              beyond == {i \in after :
                            Cardinality({j \in after : j < i}) >= max_length}
              desired_end == IF beyond # {} THEN SetMin(beyond)
                             ELSE Len(trimmed)
              upto == {i \in char_indices(trimmed) : i >= desired_end}
              snippet_end == Min2(IF upto # {} THEN SetMin(upto)
                                  ELSE Len(trimmed), Len(trimmed))
          IN IF snippet_end < snippet_start THEN Err("panic")
             ELSE Ok([snippet_start |-> snippet_start,
                      snippet_end |-> snippet_end,
                      text |->
                         (IF snippet_start > 0 THEN <<".", ".", ".">> ELSE <<>>)
                         \o SubSeq(trimmed, snippet_start + 1, snippet_end)
                         \o (IF snippet_end < Len(trimmed)
                             THEN <<".", ".", ".">> ELSE <<>>)])

(***************************************************************************)
(* SpecSnippet: every line of at most MaxLineChars characters, every match *)
(* span on character boundaries of the line, every max_length and          *)
(* backward_chars within the bounds, both kinds of build.                  *)
(***************************************************************************)
Lines == {encode(cs) : cs \in SeqsUpTo({"a", " ", "E"}, MaxLineChars)}

InitSnippet ==
    /\ request \in
          {r \in [op : {"extract_snippet"}, line : Lines,
                  match_start : 0..(3 * MaxLineChars),
                  match_end : 0..(3 * MaxLineChars),
                  max_length : 0..MaxLength, backward_chars : 0..MaxBackward,
                  overflow_checks : BOOLEAN] :
              /\ r.match_start <= r.match_end /\ r.match_end <= Len(r.line)
              /\ is_char_boundary(r.line, r.match_start)
              /\ is_char_boundary(r.line, r.match_end)}
    /\ reply = None
    /\ tree = <<>> /\ ast_walk = None
    /\ IdleLines /\ IdleTools /\ IdleRoots /\ IdleService /\ IdleEdit

ExtractSnippet ==
    /\ reply = None
    /\ reply' = Some(extract_snippet_static(request.line, request.match_start,
                        request.max_length, request.backward_chars,
                        request.overflow_checks))
    /\ UNCHANGED <<tree, request, ast_walk>>
    /\ UNCHANGED <<lineVars, toolVars, rootVars, serviceVars, editVars>>

NextSnippet == ExtractSnippet

SpecSnippet == InitSnippet /\ [][NextSnippet]_vars

\* the match lies in what is left of the line after trimming
MatchInTrimmedLine ==
    /\ request.match_start >= leading_whitespace(request.line)
    /\ request.match_end
          <= leading_whitespace(request.line) + Len(trim_str(request.line))

\* C21: for a match inside the line extract_snippet returns a valid UTF-8
\* string cut at character boundaries of the trimmed line, holding at most
\* max_length characters of it, with "..." in front iff it does not start at
\* byte 0 and "..." behind iff it does not reach the end.
C21_SnippetOnCharBoundaries ==
    (IsSome(reply) /\ request.op = "extract_snippet" /\ MatchInTrimmedLine) =>
        /\ Unwrap(reply).ok
        /\ LET out == Unwrap(reply).val
               trimmed == trim_str(request.line)
               piece == SubSeq(trimmed, out.snippet_start + 1, out.snippet_end)
           IN /\ valid_utf8(out.text)
              /\ is_char_boundary(trimmed, out.snippet_start)
              /\ is_char_boundary(trimmed, out.snippet_end)
              /\ Cardinality(char_indices(piece)) <= request.max_length
              /\ out.text =
                    (IF out.snippet_start > 0 THEN <<".", ".", ".">> ELSE <<>>)
                    \o piece
                    \o (IF out.snippet_end < Len(trimmed)
                        THEN <<".", ".", ".">> ELSE <<>>)

\* C23: the desired start is max(0, match_start - dropped - backward_chars):
\* no panic and no wrap-around when the match begins inside the leading
\* whitespace, and the snippet then starts at byte 0 of the trimmed line.
C23_DesiredStartClamped ==
    (/\ IsSome(reply) /\ request.op = "extract_snippet"
     /\ request.match_start < leading_whitespace(request.line)) =>
        /\ Unwrap(reply).ok
        /\ Unwrap(reply).val.snippet_start = 0

(***************************************************************************)
(* directory_tree (tree.rs 29-126) as the tool calls it                    *)
(* (tools/directory_tree.rs 29-70): no max_files, max_depth 2 when none is *)
(* given.  The listing is the set of paths it names.                       *)
(***************************************************************************)
MaxDepth == 3

\* tree.rs 29-126 with max_files = None
RECURSIVE directory_tree(_, _, _)
directory_tree(t, root_path, max_depth) ==
    LET valid_path == validate_path(Kinds(t), root_path, SearchAllowed)
    IN IF ~valid_path.ok THEN Err(valid_path.err)
       ELSE IF Node(t, valid_path.val).kind # "dir"
       THEN Err("Root path must be a directory")
       ELSE IF max_depth = Some(0)
       THEN Ok([entries |-> {}, reached_max_depth |-> TRUE])
       ELSE
       LET children == {q \in WalkBuilder(t, valid_path.val, TRUE) :
                            Len(q) = Len(valid_path.val) + 1}
           next_depth == IF IsSome(max_depth)
                         THEN Some(Unwrap(max_depth) - 1) ELSE None
           below == [q \in {c \in children : t[c].kind = "dir"} |->
                        directory_tree(t, q, next_depth)]
       IN IF \E q \in DOMAIN below : ~below[q].ok
          THEN Err("child")
          ELSE Ok([entries |->
                      children
                      \cup UNION {below[q].val.entries : q \in DOMAIN below},
                   reached_max_depth |->
                      \E q \in DOMAIN below : below[q].val.reached_max_depth])

\* tools/directory_tree.rs 29-70
directory_tree_run_tool(t, path, max_depth) ==
    LET out == directory_tree(t, path,
                   IF IsSome(max_depth) THEN max_depth ELSE Some(2))
    IN IF ~out.ok THEN out
       ELSE IF out.val.entries = {} THEN Err("Could not find any entries")
       ELSE out

\* SpecTree: every tree of SpecEmpty, every max_depth up to MaxDepth or none
InitTree ==
    /\ tree \in EmptyTrees
    /\ request \in {[op |-> "directory_tree", root |-> r, max_depth |-> d] :
                        r \in {SearchRoot, Outside},
                        d \in {None} \cup {Some(n) : n \in 0..MaxDepth}}
    /\ reply = None
    /\ ast_walk = None
    /\ IdleLines /\ IdleTools /\ IdleRoots /\ IdleService /\ IdleEdit

RunDirectoryTree ==
    /\ reply = None
    /\ reply' = Some(directory_tree_run_tool(tree, request.root,
                                             request.max_depth))
    /\ UNCHANGED <<tree, request, ast_walk>>
    /\ UNCHANGED <<lineVars, toolVars, rootVars, serviceVars, editVars>>

NextTree == RunDirectoryTree

SpecTree == InitTree /\ [][NextTree]_vars

\* the directories the listing stopped at for want of depth: those max_depth
\* levels below the root that the walk reaches
AtDepthLimit ==
    LET depth == IF IsSome(request.max_depth)
                 THEN Unwrap(request.max_depth) ELSE 2
    IN {d \in WalkBuilder(tree, request.root, TRUE) :
            tree[d].kind = "dir" /\ Len(d) = Len(request.root) + depth}

HasChildren(t, d) ==
    \E q \in DOMAIN t :
        starts_with(q, d) /\ Len(q) = Len(d) + 1 /\ t[q].kind # "none"

\* C22: reached_max_depth is true iff the listing stopped, for want of
\* depth, at a directory that has children.
C22_ReachedMaxDepthIffNonLeaf ==
    (IsSome(reply) /\ request.op = "directory_tree" /\ Unwrap(reply).ok) =>
        (Unwrap(reply).val.reached_max_depth
            <=> \E d \in AtDepthLimit : HasChildren(tree, d))

(***************************************************************************)
(* SpecSymlink: contains_symlink (utils.rs 116-141) applied to every path  *)
(* of the file system and to paths below its links, over file systems in   *)
(* which each link is present or not and its target exists or not.         *)
(***************************************************************************)
SymlinkFs ==
    {f \in [Paths -> {"dir", "file0", "link", "none"}] :
        /\ \A p \in Paths \ {<<"a", "ln">>, <<"a", "dangling">>, <<"c", "x">>} :
              f[p] = FsInit[p]
        /\ f[<<"a", "ln">>] \in {"link", "file0", "none"}
        /\ f[<<"a", "dangling">>] \in {"link", "none"}
        /\ f[<<"c", "x">>] \in {"file0", "none"}}

SymlinkProbes ==
    Paths \cup { <<"a", "ln", "z">>, <<"a", "dangling", "z">>,
                 <<"a", "gone">>, <<"a", "sub", "new">> }

InitSymlink ==
    /\ fs \in SymlinkFs
    /\ allowed_path = <<>> /\ flight = None
    /\ request \in {[op |-> "contains_symlink", path |-> p] :
                        p \in SymlinkProbes}
    /\ reply = None
    /\ tree = <<>> /\ ast_walk = None
    /\ IdleLines /\ IdleTools /\ IdleRoots /\ IdleEdit

ContainsSymlink ==
    /\ reply = None
    /\ reply' = Some(Ok(contains_symlink(fs, request.path)))
    /\ UNCHANGED <<tree, request, ast_walk>>
    /\ UNCHANGED <<lineVars, toolVars, rootVars, serviceVars, editVars>>

NextSymlink == ContainsSymlink

SpecSymlink == InitSymlink /\ [][NextSymlink]_vars

\* C24: contains_symlink answers true exactly when some component of the
\* path is a symbolic link, whether or not the link's target exists.
C24_AnySymlinkComponent ==
    (IsSome(reply) /\ request.op = "contains_symlink") =>
        (Unwrap(reply).val
            <=> \E n \in 1..Len(request.path) :
                    Kind(fs, SubSeq(request.path, 1, n)) = "link")

(***************************************************************************)
(* parse_file_path (utils.rs 261-266) on text: an input is whitespace, an  *)
(* optional "file://", a path, whitespace.                                 *)
(***************************************************************************)
MaxPad == 2

FilePrefix == <<"f", "i", "l", "e", ":", "/", "/">>

\* str::strip_prefix(..).unwrap_or(input)
strip_prefix_or(input, prefix) ==
    IF Len(input) >= Len(prefix) /\ SubSeq(input, 1, Len(prefix)) = prefix
    THEN SubSeq(input, Len(prefix) + 1, Len(input))
    ELSE input

\* utils.rs 262-265: the prefix stripped, then the whitespace trimmed
parse_file_path_text(input) == trim_str(strip_prefix_or(input, FilePrefix))

Pad(n) == [i \in 1..n |-> " "]

PathTexts == { <<"/">>, <<"/", "a">>, <<"a">>, <<"/", "a", " ", "b">> }

InitParse ==
    /\ request \in {[op |-> "parse_file_path", leading |-> l, prefixed |-> u,
                     path |-> p, trailing |-> t,
                     input |-> Pad(l) \o (IF u THEN FilePrefix ELSE <<>>)
                               \o p \o Pad(t)] :
                        l \in 0..MaxPad, u \in BOOLEAN, p \in PathTexts,
                        t \in 0..MaxPad}
    /\ reply = None
    /\ tree = <<>> /\ ast_walk = None
    /\ IdleLines /\ IdleTools /\ IdleRoots /\ IdleService /\ IdleEdit

\* parse_file_path on the input, then on its own result
ParseFilePath ==
    /\ \/ /\ reply = None
          /\ reply' = Some(<<parse_file_path_text(request.input)>>)
       \/ /\ IsSome(reply) /\ Len(Unwrap(reply)) = 1
          /\ reply' = Some(Unwrap(reply)
                           \o <<parse_file_path_text(Unwrap(reply)[1])>>)
    /\ UNCHANGED <<tree, request, ast_walk>>
    /\ UNCHANGED <<lineVars, toolVars, rootVars, serviceVars, editVars>>

NextParse == ParseFilePath

SpecParse == InitParse /\ [][NextParse]_vars

\* C25: parse_file_path returns exactly the path of its input, without the
\* prefix and without surrounding whitespace, and parsing the result again
\* changes nothing.
C25_ParseReturnsThePath ==
    (IsSome(reply) /\ request.op = "parse_file_path") =>
        \A i \in 1..Len(Unwrap(reply)) : Unwrap(reply)[i] = request.path

(***************************************************************************)
(* Exclude patterns of the three walkers: search_files (files.rs 92-106),  *)
(* search_files_content (content.rs 246-252) and search_files_ast          *)
(* (ast.rs 284-289 with compile_exclude_glob, ast.rs 398-440).             *)
(***************************************************************************)
MaxExcludes == 2

\* files.rs 96-100 and ast.rs 413-417: "*pat*" around a pattern without "*",
\* else a leading "/" dropped
normalize_exclude(pattern) ==
    IF \E i \in 1..Len(pattern) : pattern[i] = "*"
    THEN strip_prefix_or(pattern, <<"/">>)
    ELSE <<"*">> \o pattern \o <<"*">>

\* files.rs 92-106: the normalized patterns, glob_match, the path relative
\* to the root
files_excluded(root, p, exclude_patterns) ==
    \E i \in 1..Len(exclude_patterns) :
        glob_match(normalize_exclude(exclude_patterns[i]),
                   relative_path(p, root))

\* content.rs 246-252: the patterns as given, glob_match, the whole path
content_excluded(root, p, exclude_patterns) ==
    \E i \in 1..Len(exclude_patterns) :
        glob_match(exclude_patterns[i], path_text(p))

\* ast.rs 284-289: the normalized patterns, GlobSet, the whole path
ast_excluded(root, p, exclude_patterns) ==
    \E i \in 1..Len(exclude_patterns) :
        is_match(normalize_exclude(exclude_patterns[i]), path_text(p))

excluded_by(walker, root, p, exclude_patterns) ==
    CASE walker = "search_files" -> files_excluded(root, p, exclude_patterns)
      [] walker = "search_files_content" ->
            content_excluded(root, p, exclude_patterns)
      [] walker = "search_files_ast" -> ast_excluded(root, p, exclude_patterns)

Walkers == {"search_files", "search_files_content", "search_files_ast"}

ExcludeGlobs ==
    { Txt("a"), <<"*", ".", "t", "x", "t">>, <<"/", "s", "/", "*">>,
      <<"*", "*", "/", "s", "/", "*">> }

\* SpecExclude: every tree of text files, every list of at most MaxExcludes
\* exclude patterns; each walker run once on the root, in any order, reply
\* holding for each walker that ran the regular files it skipped
InitExclude ==
    /\ tree \in TextTrees
    /\ request \in {[op |-> "exclude", root |-> SearchRoot,
                     exclude_patterns |-> e] :
                        e \in SeqsUpTo(ExcludeGlobs, MaxExcludes) \ {<<>>}}
    /\ reply = Some(<<>>)
    /\ ast_walk = None
    /\ IdleLines /\ IdleTools /\ IdleRoots /\ IdleService /\ IdleEdit

RunWalker(walker) ==
    /\ \A i \in 1..Len(Unwrap(reply)) : Unwrap(reply)[i].walker # walker
    /\ reply' =
          Some(Append(Unwrap(reply),
                 [walker |-> walker,
                  skipped |->
                     {p \in WalkBuilder(tree, request.root, TRUE) :
                         /\ tree[p].kind = "file"
                         /\ excluded_by(walker, request.root, p,
                                        request.exclude_patterns)}]))
    /\ UNCHANGED <<tree, request, ast_walk>>
    /\ UNCHANGED <<lineVars, toolVars, rootVars, serviceVars, editVars>>

NextExclude == \E walker \in Walkers : RunWalker(walker)

SpecExclude == InitExclude /\ [][NextExclude]_vars

\* C26: for the same root and the same exclude list the three walkers skip
\* the same entries.
C26_SameExcludes ==
    (IsSome(reply) /\ IsSome(request) /\ request.op = "exclude") =>
        \A i, j \in 1..Len(Unwrap(reply)) :
            Unwrap(reply)[i].skipped = Unwrap(reply)[j].skipped

\* the request names an alias the table does not hold, or a pattern whose
\* parsed root has no text or holds ERROR nodes
RejectedUpFront ==
    \/ ~parse_language(request.language).ok
    \/ request.ast_pattern.root_text_is_empty /\ ~request.ast_pattern.trimmed_is_empty
    \/ request.ast_pattern.has_error

HeldFiles(w) ==
    Cardinality({worker \in Workers : w.workers[worker] # None})

\* C28: under every interleaving of the workers one call of search_files_ast
\* reads and parses at most 10,000 files: the files parsed and the files a
\* worker is about to parse never exceed the limit, and the walk is stopped
\* exactly when some worker saw the counter at or above the limit.
C28_AtMostLimitParsed ==
    (request.op = "search_files_ast" /\ IsSome(ast_walk)) =>
        LET w == Unwrap(ast_walk)
        IN /\ w.parsed + HeldFiles(w) <= MAX_FILES_LIMIT
           /\ w.parsed + HeldFiles(w) <= w.file_count
           /\ (w.file_count > MAX_FILES_LIMIT) <=> (w.state = "Quit")

\* the limit was reached: 10,000 files parsed, a worker saw the counter at
\* the limit and the walk was stopped
C28_Witness ==
    /\ request.op = "search_files_ast" /\ IsSome(ast_walk)
    /\ Unwrap(ast_walk).parsed = MAX_FILES_LIMIT
    /\ Unwrap(ast_walk).file_count = MAX_FILES_LIMIT + 1
    /\ Unwrap(ast_walk).state = "Quit"

\* SpecAstFair: the calls of SpecAst on the trees of text files with the
\* recursive include glob, and on more files than the limit
InitAstFair ==
    /\ InitAst
    /\ request.bulk \in {0, MAX_FILES_LIMIT + 1}
    /\ request.pattern \in {<<"*">>, <<"*", "*", "/", "*", ".", "t", "x", "t">>}

\* the workers are scheduled until run() returns and the calling thread
\* goes on: every step that can be taken is taken in the end
SpecAstFair == InitAstFair /\ [][NextAst]_vars /\ WF_vars(NextAst)

\* the returned list is what was sent: one entry for each parsed file with a
\* match, none twice, none without a match
ReturnedIsSent ==
    (/\ request.op = "search_files_ast"
     /\ IsSome(reply) /\ Unwrap(reply).ok /\ IsSome(ast_walk)) =>
        LET w == Unwrap(ast_walk)
            results == Unwrap(reply).results
        IN /\ results = w.channel
           /\ \A i, j \in 1..Len(results) :
                 results[i].file_path = results[j].file_path => i = j
           /\ \A i \in 1..Len(results) : results[i].matches >= 1
           /\ {results[i].file_path : i \in 1..Len(results)}
                 = {p \in w.parsed_files : ast_file_matches(tree, p)}

\* C29: search_files_ast returns once all workers have finished, and the
\* returned list holds exactly the results the workers sent: one entry for
\* each parsed file with at least one match, no entry twice, none with an
\* empty match list, none lost.
C29_ReturnsWhatWasSent ==
    /\ []ReturnedIsSent
    /\ WorkersFinished ~> IsSome(reply)

\* a call that returned two results after parsing a file without a match
C29_Witness ==
    /\ request.op = "search_files_ast"
    /\ IsSome(reply) /\ Unwrap(reply).ok /\ IsSome(ast_walk)
    /\ Len(Unwrap(reply).results) = 2
    /\ Cardinality(Unwrap(ast_walk).parsed_files) = 3

(***************************************************************************)
(* Roots-list-changed notifications handled concurrently (handler.rs       *)
(* 95-159, 168-182).  Each notification runs update_allowed_directories in *)
(* its own handler; a handler is suspended at list_roots(None).await,      *)
(* where the client answers with the list it has at that moment, and may   *)
(* be suspended again before update_allowed_paths replaces the allow-list. *)
(***************************************************************************)
MaxHandlers == 2
Handlers == 1..MaxHandlers

\* the lists the client may hold: empty, one directory, another directory,
\* a regular file
RaceLists ==
    { <<>>, <<Root(TRUE, DirA)>>, <<Root(FALSE, DirB)>>,
      <<Root(TRUE, <<"a", "f">>)>> }

InitRootsRace ==
    /\ enable_roots \in BOOLEAN
    /\ cli_dirs \in CliDirs
    /\ CommandLineValid(enable_roots, cli_dirs)
    /\ mcp_roots_support = enable_roots
    /\ client_supports_roots \in BOOLEAN
    /\ exited = FALSE
    /\ lastRoots = None
    /\ client_roots \in {Some(roots) : roots \in RaceLists}
    /\ handlers = [h \in Handlers |-> [pc |-> "idle", roots |-> <<>>]]
    /\ fs = FsInit
    /\ allowed_path = cli_dirs
    /\ flight = None
    /\ IdleLines /\ IdleTools /\ IdleEdit /\ IdleSearch

\* the client replaces its roots list and sends the notification; the next
\* handler starts
ClientChangesRoots(h, roots) ==
    /\ ~exited
    /\ handlers[h].pc = "idle"
    /\ \A other \in Handlers : other < h => handlers[other].pc # "idle"
    /\ client_roots' = Some(roots)
    /\ handlers' = [handlers EXCEPT ![h].pc = "notified"]
    /\ UNCHANGED <<enable_roots, mcp_roots_support, client_supports_roots,
                   cli_dirs, exited, lastRoots>>
    /\ UNCHANGED <<serviceVars, lineVars, toolVars, editVars, searchVars>>

\* handler.rs 173-180 and 95-121: the handler up to the answer to
\* list_roots, the client's list at that moment
FetchRoots(h) ==
    /\ ~exited
    /\ handlers[h].pc = "notified"
    /\ IF mcp_roots_support /\ client_supports_roots
       THEN /\ handlers' = [handlers EXCEPT ![h] =
                               [pc |-> "fetched", roots |-> Unwrap(client_roots)]]
            /\ UNCHANGED exited
       ELSE /\ handlers' = [handlers EXCEPT ![h].pc = "done"]
            /\ exited' = (mcp_roots_support /\ allowed_path = <<>>)
    /\ UNCHANGED <<enable_roots, mcp_roots_support, client_supports_roots,
                   cli_dirs, lastRoots, client_roots>>
    /\ UNCHANGED <<serviceVars, lineVars, toolVars, editVars, searchVars>>

\* handler.rs 123-157: the valid roots of the list the handler fetched
\* replace the allow-list, unless there is none
WriteRoots(h) ==
    /\ ~exited
    /\ handlers[h].pc = "fetched"
    /\ allowed_path' =
          update_allowed_directories(mcp_roots_support, client_supports_roots,
              allowed_path, Ok(handlers[h].roots), fs).allowed
    /\ handlers' = [handlers EXCEPT ![h].pc = "done"]
    /\ UNCHANGED <<enable_roots, mcp_roots_support, client_supports_roots,
                   cli_dirs, exited, lastRoots, client_roots>>
    /\ UNCHANGED <<fs, flight>>
    /\ UNCHANGED <<lineVars, toolVars, editVars, searchVars>>

NextRootsRace ==
    \/ \E h \in Handlers, roots \in RaceLists : ClientChangesRoots(h, roots)
    \/ \E h \in Handlers : FetchRoots(h)
    \/ \E h \in Handlers : WriteRoots(h)

SpecRootsRace == InitRootsRace /\ [][NextRootsRace]_vars

\* every notification sent has been handled to its end
AllHandlersCompleted ==
    /\ \A h \in Handlers : handlers[h].pc \in {"idle", "done"}
    /\ \E h \in Handlers : handlers[h].pc = "done"

\* C30: with roots enabled on both sides, once all the roots-list-changed
\* handlers have completed the allow-list is the valid roots of the client's
\* most recent list (when it has any): a list fetched earlier never
\* overwrites the allow-list written from a later one.
C30_LatestRootsWin ==
    (/\ handlers # <<>> /\ ~exited
     /\ mcp_roots_support /\ client_supports_roots
     /\ AllHandlersCompleted
     /\ valid_roots(fs, Unwrap(client_roots)) # <<>>) =>
        allowed_path = valid_roots(fs, Unwrap(client_roots))

=============================================================================
